---- MODULE Spec2Model ----
(***************************************************************************)
(* Portfolio REST API (Express / Mongoose): authentication middleware,     *)
(* role gate and the Contact / Education / Project / User route handlers,  *)
(* modelled as a state machine over the document store.                    *)
(*                                                                         *)
(* One step of Spec is one HTTP request served from start to finish (the   *)
(* sequential behaviour of the server: middleware chain, validators,       *)
(* handler, store calls, response).  `last' holds the request just served  *)
(* and its response, `prior' what the request before it did to a record.   *)
(***************************************************************************)
EXTENDS Integers, Sequences, FiniteSets, TLC

(***************************************************************************)
(* Bounds of the model.                                                    *)
(***************************************************************************)
NumUsers == 2
NumEdu == 1
NumProj == 1
NumContacts == 1
MaxClock == 2

UserIds == 1..NumUsers
EduIds == 1..NumEdu
ProjIds == 1..NumProj
ContactIds == 1..NumContacts

VARIABLES users, education, projects, contacts, now, last, prior, revoked,
          likeCalls, walk, flight, client

store == <<users, education, projects, contacts>>
vars == <<users, education, projects, contacts, now, last, prior, revoked,
          likeCalls, walk, flight, client>>
\* revoked: the users that have been deactivated or deleted at some time;
\* likeCalls[p][u]: the number, modulo 2, of like requests of user u that
\* project p has answered with success;
\* walk: the pages a client has fetched of one listing, in order (SpecPage)
hist == <<revoked, likeCalls>>

(***************************************************************************)
(* Credentials.  A token is what jwt.sign produced for a user id, or a     *)
(* string that jwt.verify rejects (malformed, signed with another secret,  *)
(* past its exp).  kind = "none" is the absent / empty value.              *)
(***************************************************************************)
NoToken == [kind |-> "none", id |-> 0]
Tokens == {[kind |-> "malformed", id |-> 0]} \cup
          [kind : {"badsig", "expired", "valid"}, id : UserIds]
TokenOpt == Tokens \cup {NoToken}

\* the Authorization header: absent, "Bearer <tok>" (tok may be missing) or
\* another scheme
NoHeader == [scheme |-> "none", tok |-> NoToken]
Headers == {NoHeader} \cup [scheme : {"Bearer", "Basic"}, tok : TokenOpt]

NoUser == [id |-> 0, role |-> "none"]

\* (variant: the expiry of the token is not checked)
verifyToken_ignoreExpiration(token) ==
    IF token.kind \in {"valid", "expired"} THEN [ok |-> TRUE, id |-> token.id]
    ELSE [ok |-> FALSE, id |-> 0]

\* (variant: the payload is decoded without verifying the signature)
verifyToken_decodeOnly(token) ==
    IF token.kind \in {"valid", "badsig"} THEN [ok |-> TRUE, id |-> token.id]
    ELSE [ok |-> FALSE, id |-> 0]

\* jwt.verify(token, secret): the decoded payload, or a throw
verifyToken(token) ==
    IF token.kind = "valid" THEN [ok |-> TRUE, id |-> token.id]
    ELSE [ok |-> FALSE, id |-> 0]

\* (variant: the Authorization header first, then the cookie)
extractToken_headerFirst(cookie, header) ==
    IF header.scheme = "Bearer" /\ header.tok.kind # "none" THEN header.tok
    ELSE cookie

\* cookie first, then the Authorization header
extractToken(cookie, header) ==
    IF cookie.kind # "none" THEN cookie
    ELSE IF header.scheme = "Bearer" THEN header.tok
    ELSE NoToken

\* User.findById(id): the stored user, as the principal attached to req.user
\* (variant: the role is the one the user had when the token was issued)
findUser_issuedRole(U, id) ==
    IF id \in DOMAIN U /\ U[id].exists
    THEN [id |-> id, role |-> IF id = 1 THEN "admin" ELSE "user"]
    ELSE NoUser

findUser(U, id) ==
    IF id \in DOMAIN U /\ U[id].exists THEN [id |-> id, role |-> U[id].role]
    ELSE NoUser

Reject(status, message) ==
    [next |-> 0, nexts |-> 0, status |-> status, message |-> message,
     user |-> NoUser]

Pass(user) ==
    [next |-> 1, nexts |-> 1, status |-> 0, message |-> "", user |-> user]

\* (variant: isActive is not looked at)
protect_skipActive(cookie, header, U) ==
    LET token == extractToken(cookie, header) IN
    IF token.kind = "none"
    THEN Reject(401, "Access denied. No token provided.")
    ELSE LET decoded == verifyToken(token) IN
         IF ~decoded.ok
         THEN Reject(401, "Token is invalid or expired.")
         ELSE LET user == findUser(U, decoded.id) IN
              IF user.id = 0
              THEN Reject(401, "Token is invalid. User not found.")
              ELSE Pass(user)

protect(cookie, header, U) ==
    LET token == extractToken(cookie, header) IN
    IF token.kind = "none"
    THEN Reject(401, "Access denied. No token provided.")
    ELSE LET decoded == verifyToken(token) IN
         IF ~decoded.ok
         THEN Reject(401, "Token is invalid or expired.")
         ELSE LET user == findUser(U, decoded.id) IN
              IF user.id = 0
              THEN Reject(401, "Token is invalid. User not found.")
              ELSE IF ~U[user.id].isActive
              THEN Reject(401, "Account is deactivated. Please contact administrator.")
              ELSE Pass(user)

\* (variant: any authenticated user passes the role gate)
adminOnly_anyRole(reqUser) ==
    IF reqUser.id # 0
    THEN Pass(reqUser)
    ELSE [Reject(403, "Access denied. Admin privileges required.")
            EXCEPT !.user = reqUser, !.nexts = 1]

\* req.user stays attached when the role gate answers 403
adminOnly(reqUser) ==
    IF reqUser.id # 0 /\ reqUser.role = "admin"
    THEN Pass(reqUser)
    ELSE [Reject(403, "Access denied. Admin privileges required.")
            EXCEPT !.user = reqUser, !.nexts = 1]

\* (variant: a deactivated user is attached too)
optionalAuth_attachInactive(cookie, header, U) ==
    LET token == extractToken(cookie, header) IN
    IF token.kind = "none" THEN Pass(NoUser)
    ELSE LET decoded == verifyToken(token) IN
         IF ~decoded.ok THEN Pass(NoUser)
         ELSE Pass(findUser(U, decoded.id))

optionalAuth(cookie, header, U) ==
    LET token == extractToken(cookie, header) IN
    IF token.kind = "none" THEN Pass(NoUser)
    ELSE LET decoded == verifyToken(token) IN
         IF ~decoded.ok THEN Pass(NoUser)
         ELSE LET user == findUser(U, decoded.id) IN
              IF user.id # 0 /\ U[user.id].isActive THEN Pass(user)
              ELSE Pass(NoUser)

\* (variant: the chain is protect alone)
protectAdmin_protectOnly(cookie, header, U) ==
    protect(cookie, header, U)

\* the chain protect, adminOnly of the admin-only routes
protectAdmin(cookie, header, U) ==
    LET a == protect(cookie, header, U) IN
    IF a.next = 0 THEN a ELSE adminOnly(a.user)

(***************************************************************************)
(* Requests.  req.params.id is a string: the 24 hex digits of an ObjectId  *)
(* in lower case (what ObjectId.toString() gives), the same digits in      *)
(* upper case (the store casts both to the same ObjectId), or a string     *)
(* that is no ObjectId (the cast throws).  oid = 0 is a well-formed id     *)
(* that no document has.                                                   *)
(***************************************************************************)
ParamIds(S) == [oid : S \cup {0}, form : {"lower", "upper"}] \cup
               {[oid |-> 0, form |-> "invalid"]}
NoParam == [oid |-> 0, form |-> "none"]

castable(param) == param.form \in {"lower", "upper"}

\* req.params.id === doc._id.toString()
sameIdString(param, id) == param.form = "lower" /\ param.oid = id

\* request bodies and query strings; "" and 0 are absent fields
\* (nameLen, subjectLen, messageLen: lengths of the trimmed strings)
NoBody == [role |-> "", isActive |-> "", type |-> "", category |-> "",
           parsable |-> TRUE,
           startDate |-> 0, status |-> "", nameLen |-> 0, emailOk |-> FALSE,
           subjectLen |-> 0, messageLen |-> 0,
           limit |-> 0, page |-> 0, featured |-> "", isVisible |-> "",
           sortBy |-> "", sortOrder |-> "",
           endDate |-> 0, isCurrentlyStudying |-> "", isOngoing |-> "",
           createdBy |-> 0]

\* values of body.isActive: "true" / "false" are JSON true / false, "0" the
\* number 0, and the quoted ones the strings 'true', 'false', '1', '0', 'yes'
\* express-validator isBoolean(): validator.isBoolean(toString(value))
isBoolean(v) == v \in {"true", "false", "0", "'true'", "'false'", "'1'", "'0'"}

\* JavaScript !value
falsy(v) == v \in {"false", "0", ""}

\* the values Mongoose casts to a Boolean path; any other string is a
\* CastError
booleanCastable(v) ==
    v \in {"true", "false", "0", "'true'", "'false'", "'1'", "'0'", "'yes'", "'no'"}

\* Mongoose cast of a value to a Boolean path
castBoolean(v) == v \in {"true", "'true'", "'1'", "'yes'"}

\* the request served last and its response; pre is the record the request
\* addressed as it was stored before the request
NoPre == [exists |-> FALSE]
Request(route, cookie, header, param, body) ==
    [route |-> route, cookie |-> cookie, header |-> header,
     param |-> param, body |-> body]

\* res.status(status).json({success, message, ...}); ran: the route handler
\* was invoked; nexts: calls of next() by the authentication middleware;
\* keys: which of the keys success, status and timestamp the body has
Response(status, success, message, ran, nexts, user) ==
    [status |-> status, success |-> success, message |-> message,
     keys |-> {"success"},
     ran |-> ran, nexts |-> nexts, user |-> user, errors |-> {},
     docs |-> << >>, total |-> 0, pages |-> 0, likeCount |-> 0, liked |-> FALSE,
     pre |-> NoPre, wrote |-> FALSE]

\* the response of a middleware that did not call next()
Rejected(g) == Response(g.status, FALSE, g.message, FALSE, g.nexts, g.user)

\* 400 with errors: errors.array(), here the set of the fields it names
ValidationFailed(g, errors) ==
    [Response(400, FALSE, "Validation failed", TRUE, 1, g.user)
        EXCEPT !.errors = errors]

Failure(status, message, g) == Response(status, FALSE, message, TRUE, 1, g.user)

Success(status, message, g) == Response(status, TRUE, message, TRUE, 1, g.user)

\* what the request before the last one did, kept when it was a successful
\* toggle (visibility, featured, like)
ToggleRoutes == {"PUT /api/education/:id/visibility",
                 "PUT /api/projects/:id/visibility",
                 "PUT /api/projects/:id/featured",
                 "POST /api/projects/:id/like"}
NoPrior == [route |-> "", oid |-> 0, by |-> 0, pre |-> NoPre]
Trail(l) ==
    IF l.route \in ToggleRoutes /\ l.status = 200
    THEN [route |-> l.route, oid |-> l.param.oid, by |-> l.user.id, pre |-> l.pre]
    ELSE NoPrior

\* no request is being served
NoLast == Request("", NoToken, NoHeader, NoParam, NoBody) @@
          Response(0, FALSE, "", FALSE, 0, NoUser)

\* the pages a client has fetched of one listing: pages 1..page of the
\* listing (route, query without its page), and the ids they held, in order
PagedRoutes == {"GET /api/projects", "GET /api/contact", "GET /api/user/all",
                "GET /api/education/admin/all"}
NoWalk == [route |-> "", query |-> NoBody, page |-> 0, ids |-> << >>]
Ids(docs) == [k \in 1..Len(docs) |-> docs[k].id]
Turn(w, l) ==
    IF l.route \notin PagedRoutes \/ l.status # 200 THEN NoWalk
    ELSE IF l.body.page = 1
    THEN [route |-> l.route, query |-> [l.body EXCEPT !.page = 0], page |-> 1,
          ids |-> Ids(l.docs)]
    ELSE IF /\ w.route = l.route
            /\ w.query = [l.body EXCEPT !.page = 0]
            /\ l.body.page = w.page + 1
    THEN [w EXCEPT !.page = l.body.page, !.ids = @ \o Ids(l.docs)]
    ELSE NoWalk

\* the requests that are served concurrently: each is at an await of its
\* handler, between two calls to the store
\* (stage: "authed" after the authentication middleware, "loaded" after the
\* findById of a toggle, "done" when the response has been sent; read: the
\* flag that findById returned; views: the views of the document sent;
\* inc: the $inc of views that was issued and not awaited; faults: the
\* store calls of the request that failed; responses: responses sent;
\* seen: the requests whose 200 for the same project had been sent when
\* this one read the project; behind: those of them whose increment had
\* not been applied then; likes: the likes of the project that findById
\* returned; stale: the project's version key __v has been incremented since
\* then; role: req.body.role; oid: req.params.id)
NumFlights == 2
Slots == 1..NumFlights
NoFlight == [stage |-> "none", route |-> "", oid |-> 0, user |-> NoUser,
             read |-> FALSE, status |-> 0, success |-> FALSE, message |-> "",
             views |-> 0, inc |-> "none", faults |-> {}, responses |-> 0,
             seen |-> {}, behind |-> {}, likes |-> << >>, stale |-> FALSE,
             role |-> ""]
NoFlights == [s \in Slots |-> NoFlight]

(***************************************************************************)
(* The client's authentication context (two versions of AuthContext: "A"   *)
(* with SET_LOADING / SET_ERROR, "B" with LOGIN_START / LOGIN_FAILURE).    *)
(* user and token are 0 for null or the id of the user they belong to;     *)
(* error is "" for null.                                                   *)
(***************************************************************************)
LoggedOut == [user |-> 0, token |-> 0, isAuthenticated |-> FALSE,
              isLoading |-> FALSE, error |-> ""]
NoStorage == [auth_token |-> 0, user |-> 0]

\* initialState of a version, given localStorage
initialState(ctx, storage) ==
    [user |-> 0, token |-> IF ctx = "A" THEN storage.auth_token ELSE 0,
     isAuthenticated |-> FALSE, isLoading |-> TRUE, error |-> ""]

\* authReducer of version A
authReducer(state, type, payload) ==
    CASE type = "SET_LOADING" -> [state EXCEPT !.isLoading = payload, !.error = ""]
      [] type = "LOGIN_SUCCESS" ->
            [state EXCEPT !.user = payload.user, !.token = payload.token,
                          !.isAuthenticated = TRUE, !.isLoading = FALSE,
                          !.error = ""]
      [] type = "LOGOUT" ->
            [state EXCEPT !.user = 0, !.token = 0, !.isAuthenticated = FALSE,
                          !.isLoading = FALSE, !.error = ""]
      [] type = "SET_ERROR" -> [state EXCEPT !.error = payload, !.isLoading = FALSE]
      [] type = "CLEAR_ERROR" -> [state EXCEPT !.error = ""]
      [] type = "UPDATE_USER" -> [state EXCEPT !.user = payload]
      [] OTHER -> state

\* authReducer of version B
authReducerB(state, type, payload) ==
    CASE type = "LOGIN_START" -> [state EXCEPT !.isLoading = TRUE, !.error = ""]
      [] type = "LOGIN_SUCCESS" ->
            [state EXCEPT !.user = payload.user, !.token = payload.token,
                          !.isAuthenticated = TRUE, !.isLoading = FALSE,
                          !.error = ""]
      [] type = "LOGIN_FAILURE" ->
            [state EXCEPT !.user = 0, !.token = 0, !.isAuthenticated = FALSE,
                          !.isLoading = FALSE, !.error = payload]
      [] type = "LOGOUT" ->
            [state EXCEPT !.user = 0, !.token = 0, !.isAuthenticated = FALSE,
                          !.isLoading = FALSE, !.error = ""]
      [] type = "SET_USER" -> [state EXCEPT !.user = payload, !.isLoading = FALSE]
      [] type = "CLEAR_ERROR" -> [state EXCEPT !.error = ""]
      [] OTHER -> state

reduce(ctx, state, type, payload) ==
    IF ctx = "A" THEN authReducer(state, type, payload)
    ELSE authReducerB(state, type, payload)

\* the state after the actions of a sequence have been dispatched in order
RECURSIVE dispatchAll(_, _, _)
dispatchAll(ctx, state, actions) ==
    IF actions = << >> THEN state
    ELSE dispatchAll(ctx, reduce(ctx, state, actions[1].type, actions[1].payload),
                     Tail(actions))

Act(type, payload) == [type |-> type, payload |-> payload]
Types(actions) == {actions[k].type : k \in 1..Len(actions)}

\* a rejected call of the api: status 0 is a request without a response,
\* status -1 an error without request and response, data the message of
\* the response body
Rejections == {[status |-> 401, data |-> "Invalid credentials"],
               [status |-> 400, data |-> ""],
               [status |-> 0, data |-> ""],
               [status |-> -1, data |-> ""]}
Resolved == [status |-> 200, data |-> ""]

\* error.message as the response interceptor leaves it
interceptedMessage(r) ==
    IF r.status > 0 THEN (IF r.data # "" THEN r.data ELSE "An error occurred")
    ELSE IF r.status = 0 THEN "Network error. Please check your connection."
    ELSE r.data

\* error.message || fallback
errorMessage(r, fallback) ==
    IF interceptedMessage(r) = "" THEN fallback ELSE interceptedMessage(r)

\* localStorage after the response interceptor has seen the outcome
intercepted(storage, r) == IF r.status = 401 THEN NoStorage ELSE storage

\* the interceptor assigns window.location.href
redirects(path, r) == r.status = 401 /\ path # "/signin"

\* the api calls that are under way at a time, at most
MaxCalls == 2
\* the users that sign in on this client
Accounts == {1}
Ops == {"mount", "login", "register", "logout", "updateProfile"}
NoDone == [op |-> "", ok |-> TRUE, message |-> "", was |-> FALSE]

\* ctx: the version; path: window.location.pathname; mounted: the effect
\* of the provider has run; leaving: a navigation is under way; calls: the
\* api calls awaited; held: the token the effect read; done: the operation
\* that ended last, whether its api call resolved, the error message of
\* its catch and isAuthenticated before it ended; cleared: CLEAR_ERROR was
\* dispatched in the last step
NoClient == [ctx |-> "", path |-> "", mounted |-> FALSE, leaving |-> FALSE,
             state |-> LoggedOut, storage |-> NoStorage,
             calls |-> [o \in Ops |-> FALSE], held |-> 0,
             done |-> NoDone, cleared |-> FALSE]

\* a request arrives when the server is idle and is served to its response
\* in one step
\* (wrote: a store call of the request changed a document)
Serve(req, res, wrote) ==
    /\ last = NoLast
    /\ last' = req @@ [res EXCEPT !.wrote = wrote]
    /\ UNCHANGED <<prior, flight, client>>

\* the response has been sent: the server is idle again
Idle ==
    /\ last # NoLast
    /\ last' = NoLast
    /\ prior' = IF last.wrote THEN Trail(last) ELSE prior
    /\ UNCHANGED <<store, now, hist, walk, flight, client>>

(***************************************************************************)
(* User routes                                                             *)
(***************************************************************************)
\* PUT /api/user/:id/role
PutUserRoleResult(g, param, body, U) ==
    IF g.next = 0 THEN [res |-> Rejected(g), users |-> U]
    ELSE IF body.role \notin {"user", "admin"}
    THEN [res |-> ValidationFailed(g, {"role"}), users |-> U]
    ELSE IF sameIdString(param, g.user.id) /\ body.role = "user"
    THEN [res |-> Failure(400, "You cannot demote yourself from admin role", g),
          users |-> U]
    ELSE IF ~castable(param)
    THEN [res |-> Failure(500, "Error updating user role", g), users |-> U]
    ELSE IF findUser(U, param.oid).id = 0
    THEN [res |-> Failure(404, "User not found", g), users |-> U]
    ELSE [res |-> Success(200, "User role updated successfully", g),
          users |-> [U EXCEPT ![param.oid].role = body.role]]

PutUserRole(cookie, header, param, role) ==
    LET body == [NoBody EXCEPT !.role = role]
        g == protectAdmin(cookie, header, users)
        r == PutUserRoleResult(g, param, body, users) IN
    /\ r.res.status = 200 => now < MaxClock
    /\ users' = r.users
    /\ now' = IF r.res.status = 200 THEN now + 1 ELSE now
    /\ Serve(Request("PUT /api/user/:id/role", cookie, header, param, body),
             r.res, r.users # users)
    /\ UNCHANGED <<education, projects, contacts, revoked, likeCalls>>

\* PUT /api/user/:id/status
PutUserStatusResult(g, param, body, U) ==
    IF g.next = 0 THEN [res |-> Rejected(g), users |-> U]
    ELSE IF ~isBoolean(body.isActive)
    THEN [res |-> ValidationFailed(g, {"isActive"}), users |-> U]
    ELSE IF sameIdString(param, g.user.id) /\ falsy(body.isActive)
    THEN [res |-> Failure(400, "You cannot deactivate your own account", g),
          users |-> U]
    ELSE IF ~castable(param)
    THEN [res |-> Failure(500, "Error updating user status", g), users |-> U]
    ELSE IF findUser(U, param.oid).id = 0
    THEN [res |-> Failure(404, "User not found", g), users |-> U]
    ELSE [res |-> Success(200, "User status updated successfully", g),
          users |-> [U EXCEPT ![param.oid].isActive = castBoolean(body.isActive)]]

PutUserStatus(cookie, header, param, isActive) ==
    LET body == [NoBody EXCEPT !.isActive = isActive]
        g == protectAdmin(cookie, header, users)
        r == PutUserStatusResult(g, param, body, users) IN
    /\ r.res.status = 200 => now < MaxClock
    /\ users' = r.users
    /\ now' = IF r.res.status = 200 THEN now + 1 ELSE now
    /\ Serve(Request("PUT /api/user/:id/status", cookie, header, param, body),
             r.res, r.users # users)
    /\ revoked' = revoked \cup {u \in UserIds : ~r.users[u].isActive}
    /\ UNCHANGED <<education, projects, contacts, likeCalls>>

\* DELETE /api/user/:id
DeleteUserResult(g, param, U) ==
    IF g.next = 0 THEN [res |-> Rejected(g), users |-> U]
    ELSE IF sameIdString(param, g.user.id)
    THEN [res |-> Failure(400, "You cannot delete your own account", g),
          users |-> U]
    ELSE IF ~castable(param)
    THEN [res |-> Failure(500, "Error deleting user", g), users |-> U]
    ELSE IF findUser(U, param.oid).id = 0
    THEN [res |-> Failure(404, "User not found", g), users |-> U]
    ELSE [res |-> Success(200, "User deleted successfully", g),
          users |-> [U EXCEPT ![param.oid].exists = FALSE]]

DeleteUser(cookie, header, param) ==
    LET g == protectAdmin(cookie, header, users)
        r == DeleteUserResult(g, param, users) IN
    /\ r.res.status = 200 => now < MaxClock
    /\ users' = r.users
    /\ now' = IF r.res.status = 200 THEN now + 1 ELSE now
    /\ Serve(Request("DELETE /api/user/:id", cookie, header, param, NoBody),
             r.res, r.users # users)
    /\ revoked' = revoked \cup {u \in UserIds : ~r.users[u].exists}
    /\ UNCHANGED <<education, projects, contacts, likeCalls>>

\* GET /api/user/:id
GetUserResult(g, param, U) ==
    IF g.next = 0 THEN Rejected(g)
    ELSE IF ~castable(param) THEN Failure(500, "Error fetching user", g)
    ELSE IF findUser(U, param.oid).id = 0 THEN Failure(404, "User not found", g)
    ELSE Success(200, "", g)

GetUser(cookie, header, param) ==
    LET g == protectAdmin(cookie, header, users) IN
    /\ Serve(Request("GET /api/user/:id", cookie, header, param, NoBody),
             GetUserResult(g, param, users), FALSE)
    /\ UNCHANGED <<store, now, hist>>

\* GET /api/user/stats/dashboard
GetUserStats(cookie, header) ==
    LET g == protectAdmin(cookie, header, users) IN
    /\ Serve(Request("GET /api/user/stats/dashboard", cookie, header, NoParam, NoBody),
             IF g.next = 0 THEN Rejected(g) ELSE Success(200, "", g), FALSE)
    /\ UNCHANGED <<store, now, hist>>

(***************************************************************************)
(* Store queries: find(query).sort(sort).skip(skip).limit(limit)           *)
(***************************************************************************)
Min(a, b) == IF a < b THEN a ELSE b

\* Math.ceil(total / limit)
Ceil(total, limit) == (total + limit - 1) \div limit

\* the place of a string among the strings of the model, in the order in
\* which the store compares strings
Strings == <<"", "admin", "course", "formal", "new", "other", "read", "user",
             "web-development">>
StringRank(str) == CHOOSE k \in 1..Len(Strings) : Strings[k] = str

\* the value a sort compares; false sorts before true
SortKey(doc, field) ==
    IF field \in {"isFeatured", "isVisible", "isActive"}
    THEN (IF doc[field] THEN 1 ELSE 0)
    ELSE IF field \in {"role", "status", "type", "category"}
    THEN StringRank(doc[field])
    ELSE doc[field]

\* doc a sorts strictly before doc b; sort is a sequence of <<field, 1 | -1>>
RECURSIVE Precedes(_, _, _)
Precedes(a, b, sort) ==
    IF sort = << >> THEN FALSE
    ELSE LET ka == SortKey(a, sort[1][1])
             kb == SortKey(b, sort[1][1]) IN
         IF ka = kb THEN Precedes(a, b, Tail(sort))
         ELSE IF sort[1][2] = 1 THEN ka < kb ELSE ka > kb

Perms(S) ==
    {s \in [1..Cardinality(S) -> S] :
        \A i, j \in 1..Cardinality(S) : i # j => s[i] # s[j]}

\* the orders in which the store may return the documents S of collection C
\* for a sort: documents that tie on every sort key come in any order
Orders(S, C, sort) ==
    {s \in Perms(S) :
        \A i, j \in 1..Cardinality(S) :
            i < j => ~Precedes(C[s[j]], C[s[i]], sort)}

SkipLimit(order, skip, limit) ==
    SubSeq(order, skip + 1, Min(skip + limit, Len(order)))

\* (variant: the secondary keys are left out)
SortSpec_primaryOnly(sortBy, sortOrder, secondary) ==
    <<  <<sortBy, IF sortOrder = "desc" THEN -1 ELSE 1>>  >>

\* { field: direction } of a list route, then the route's secondary keys
SortSpec(sortBy, sortOrder, secondary) ==
    <<  <<sortBy, IF sortOrder = "desc" THEN -1 ELSE 1>>  >> \o
    SelectSeq(secondary, LAMBDA k : k[1] # sortBy)

Live(C) == {i \in DOMAIN C : C[i].exists}

\* the documents of a response, as sent (contacts and users have no
\* visibility flag)
PlainDocs(ids) == [k \in 1..Len(ids) |-> [id |-> ids[k], isVisible |-> TRUE]]
Docs(ids, C) == [k \in 1..Len(ids) |-> [id |-> ids[k], isVisible |-> C[ids[k]].isVisible]]

isAdmin(reqUser) == reqUser.id # 0 /\ reqUser.role = "admin"

\* the least id no document of C has had
FreeIds(C) == {i \in DOMAIN C : C[i].createdAt = 0}
NewId(C) == CHOOSE i \in FreeIds(C) : \A j \in FreeIds(C) : i <= j

(***************************************************************************)
(* Education routes                                                        *)
(***************************************************************************)
EduTypes == {"formal", "course"}
\* (endDate 0: null)
NoEdu == [exists |-> FALSE, isVisible |-> FALSE, type |-> "", startDate |-> 0,
          endDate |-> 0, isCurrentlyStudying |-> FALSE,
          sortOrder |-> 0, createdBy |-> 0, createdAt |-> 0, updatedAt |-> 0]
\* a deleted document: its id is never given to another document
DeletedEdu == [NoEdu EXCEPT !.createdAt = 1]

\* (variant: the query has no isVisible condition)
EduQuery_unfiltered(reqUser, type, E) ==
    {i \in Live(E) : type # "" => E[i].type = type}

\* the query of GET /api/education
EduQuery(reqUser, type, E) ==
    {i \in Live(E) :
        /\ (~isAdmin(reqUser) => E[i].isVisible)
        /\ (type # "" => E[i].type = type)}

\* GET /api/education
GetEducation(cookie, header, type, limit, sortBy, sortOrder) ==
    LET g == optionalAuth(cookie, header, users)
        sort == SortSpec(sortBy, sortOrder, << <<"sortOrder", 1>> >>) IN
    \E order \in Orders(EduQuery(g.user, type, education), education, sort) :
        /\ Serve(Request("GET /api/education", cookie, header, NoParam,
                         [NoBody EXCEPT !.type = type, !.limit = limit,
                                        !.sortBy = sortBy, !.sortOrder = sortOrder]),
                 [Success(200, "", g) EXCEPT
                    !.docs = Docs(SkipLimit(order, 0, limit), education)], FALSE)
        /\ UNCHANGED <<store, now, hist>>

\* GET /api/education/:id
GetEducationByIdResult(g, param, E) ==
    IF ~castable(param) THEN Failure(500, "Error fetching education record", g)
    ELSE IF \/ param.oid \notin Live(E)
            \/ (~isAdmin(g.user) /\ ~E[param.oid].isVisible)
    THEN Failure(404, "Education record not found", g)
    ELSE [Success(200, "", g) EXCEPT !.docs = Docs(<<param.oid>>, E)]

GetEducationById(cookie, header, param) ==
    LET g == optionalAuth(cookie, header, users) IN
    /\ Serve(Request("GET /api/education/:id", cookie, header, param, NoBody),
             GetEducationByIdResult(g, param, education), FALSE)
    /\ UNCHANGED <<store, now, hist>>

\* the validators of POST /api/education (create) and PUT /api/education/:id
\* (every field optional)
\* (variant: an endDate in the body is kept)
endDateOf_bodyFirst(body, flag) ==
    IF body.endDate # 0 THEN [set |-> TRUE, value |-> body.endDate]
    ELSE IF ~falsy(flag) THEN [set |-> TRUE, value |-> 0]
    ELSE [set |-> FALSE, value |-> 0]

\* the endDate of educationData / updateData / projectData: that of the
\* body, replaced by null when the flag of the body is truthy
\* (set: the data has an endDate key)
endDateOf(body, flag) ==
    IF ~falsy(flag) THEN [set |-> TRUE, value |-> 0]
    ELSE IF body.endDate # 0 THEN [set |-> TRUE, value |-> body.endDate]
    ELSE [set |-> FALSE, value |-> 0]

\* the status of projectData / updateData
ProjStatuses == {"planning", "in-progress", "completed", "on-hold", "cancelled"}
statusOf(body) ==
    IF ~falsy(body.isOngoing) THEN "in-progress" ELSE body.status

EduErrors(body, create) ==
    {f \in {"startDate"} :
        ~(IF body.startDate = 0 THEN ~create ELSE body.startDate > 0)}
    \cup {f \in {"type"} : ~(body.type # "" => body.type \in EduTypes)}

EduBodyValid(body, create) == EduErrors(body, create) = {}

\* POST /api/education
PostEducationResult(g, body, E, t) ==
    IF g.next = 0 THEN [res |-> Rejected(g), education |-> E, wrote |-> FALSE]
    ELSE IF ~EduBodyValid(body, TRUE)
    THEN [res |-> ValidationFailed(g, EduErrors(body, TRUE)), education |-> E, wrote |-> FALSE]
    ELSE IF body.isCurrentlyStudying # "" /\ ~booleanCastable(body.isCurrentlyStudying)
    THEN [res |-> Failure(500, "Error creating education record", g),
          education |-> E, wrote |-> FALSE]
    ELSE LET id == NewId(E)
             doc == [exists |-> TRUE, isVisible |-> TRUE,
                     type |-> IF body.type = "" THEN "formal" ELSE body.type,
                     startDate |-> body.startDate,
                     endDate |-> endDateOf(body, body.isCurrentlyStudying).value,
                     isCurrentlyStudying |-> castBoolean(body.isCurrentlyStudying),
                     sortOrder |-> 0,
                     createdBy |-> g.user.id, createdAt |-> t, updatedAt |-> t] IN
         [res |-> [Success(201, "Education record created successfully", g)
                     EXCEPT !.docs = << [id |-> id, isVisible |-> TRUE] >>],
          education |-> [E EXCEPT ![id] = doc], wrote |-> TRUE]

PostEducation(cookie, header, body) ==
    LET g == protectAdmin(cookie, header, users)
        r == PostEducationResult(g, body, education, now + 1) IN
    /\ (/\ g.next = 1 /\ EduBodyValid(body, TRUE)
        /\ (body.isCurrentlyStudying # "" => booleanCastable(body.isCurrentlyStudying)))
          => (FreeIds(education) # {} /\ now < MaxClock)
    /\ education' = r.education
    /\ now' = IF r.wrote THEN now + 1 ELSE now
    /\ Serve(Request("POST /api/education", cookie, header, NoParam, body), r.res, r.education # education)
    /\ UNCHANGED <<users, projects, contacts, hist>>

\* PUT /api/education/:id
PutEducationResult(g, param, body, E, t) ==
    IF g.next = 0 THEN [res |-> Rejected(g), education |-> E, wrote |-> FALSE]
    ELSE IF ~EduBodyValid(body, FALSE)
    THEN [res |-> ValidationFailed(g, EduErrors(body, FALSE)), education |-> E, wrote |-> FALSE]
    ELSE IF ~castable(param)
    THEN [res |-> Failure(500, "Error updating education record", g),
          education |-> E, wrote |-> FALSE]
    ELSE IF param.oid \notin Live(E)
    THEN [res |-> Failure(404, "Education record not found", g),
          education |-> E, wrote |-> FALSE]
    ELSE IF body.isCurrentlyStudying # "" /\ ~booleanCastable(body.isCurrentlyStudying)
    THEN [res |-> Failure(500, "Error updating education record", g),
          education |-> E, wrote |-> FALSE]
    ELSE LET old == E[param.oid]
             end == endDateOf(body, body.isCurrentlyStudying)
             doc == [old EXCEPT
                       !.type = IF body.type = "" THEN old.type ELSE body.type,
                       !.startDate = IF body.startDate = 0 THEN old.startDate
                                     ELSE body.startDate,
                       !.endDate = IF end.set THEN end.value ELSE old.endDate,
                       !.isCurrentlyStudying =
                           IF body.isCurrentlyStudying = "" THEN old.isCurrentlyStudying
                           ELSE castBoolean(body.isCurrentlyStudying),
                       !.createdBy = IF body.createdBy = 0 THEN old.createdBy
                                     ELSE body.createdBy,
                       !.updatedAt = t] IN
         [res |-> [Success(200, "Education record updated successfully", g)
                     EXCEPT !.docs = << [id |-> param.oid, isVisible |-> doc.isVisible] >>,
                            !.pre = old],
          education |-> [E EXCEPT ![param.oid] = doc], wrote |-> TRUE]

PutEducation(cookie, header, param, body) ==
    LET g == protectAdmin(cookie, header, users)
        r == PutEducationResult(g, param, body, education, now + 1) IN
    /\ r.wrote => now < MaxClock
    /\ education' = r.education
    /\ now' = IF r.wrote THEN now + 1 ELSE now
    /\ Serve(Request("PUT /api/education/:id", cookie, header, param, body), r.res, r.education # education)
    /\ UNCHANGED <<users, projects, contacts, hist>>

\* DELETE /api/education/:id
DeleteEducationResult(g, param, E) ==
    IF g.next = 0 THEN [res |-> Rejected(g), education |-> E]
    ELSE IF ~castable(param)
    THEN [res |-> Failure(500, "Error deleting education record", g), education |-> E]
    ELSE IF param.oid \notin Live(E)
    THEN [res |-> Failure(404, "Education record not found", g), education |-> E]
    ELSE [res |-> Success(200, "Education record deleted successfully", g),
          education |-> [E EXCEPT ![param.oid] = DeletedEdu]]

DeleteEducation(cookie, header, param) ==
    LET g == protectAdmin(cookie, header, users)
        r == DeleteEducationResult(g, param, education) IN
    /\ r.res.status = 200 => now < MaxClock
    /\ education' = r.education
    /\ now' = IF r.res.status = 200 THEN now + 1 ELSE now
    /\ Serve(Request("DELETE /api/education/:id", cookie, header, param, NoBody),
             r.res, r.education # education)
    /\ UNCHANGED <<users, projects, contacts, hist>>

\* (variant: the flag is cleared)
negate_clear(value) == FALSE

\* record.flag = !record.flag
negate(value) == ~value

\* PUT /api/education/:id/visibility
PutEducationVisibilityResult(g, param, E, t) ==
    IF g.next = 0 THEN [res |-> Rejected(g), education |-> E, wrote |-> FALSE]
    ELSE IF ~castable(param)
    THEN [res |-> Failure(500, "Error updating visibility", g),
          education |-> E, wrote |-> FALSE]
    ELSE IF param.oid \notin Live(E)
    THEN [res |-> Failure(404, "Education record not found", g),
          education |-> E, wrote |-> FALSE]
    ELSE LET old == E[param.oid]
             doc == [old EXCEPT !.isVisible = negate(old.isVisible),
                                !.updatedAt = t] IN
         [res |-> [Success(200, IF doc.isVisible
                                THEN "Education record shown successfully"
                                ELSE "Education record hidden successfully", g)
                     EXCEPT !.docs = << [id |-> param.oid, isVisible |-> doc.isVisible] >>,
                            !.pre = old],
          education |-> [E EXCEPT ![param.oid] = doc], wrote |-> TRUE]

PutEducationVisibility(cookie, header, param) ==
    LET g == protectAdmin(cookie, header, users)
        r == PutEducationVisibilityResult(g, param, education, now + 1) IN
    /\ r.wrote => now < MaxClock
    /\ education' = r.education
    /\ now' = IF r.wrote THEN now + 1 ELSE now
    /\ Serve(Request("PUT /api/education/:id/visibility", cookie, header, param, NoBody),
             r.res, r.education # education)
    /\ UNCHANGED <<users, projects, contacts, hist>>

(***************************************************************************)
(* Project routes                                                          *)
(***************************************************************************)
Categories == {"web-development", "other"}
NoProj == [exists |-> FALSE, isVisible |-> FALSE, isFeatured |-> FALSE,
           category |-> "", sortOrder |-> 0, views |-> 0, likes |-> << >>,
           endDate |-> 0, isOngoing |-> FALSE, status |-> "",
           createdBy |-> 0, createdAt |-> 0, updatedAt |-> 0]
DeletedProj == [NoProj EXCEPT !.createdAt = 1]

\* the query of GET /api/projects
ProjQuery(reqUser, category, featured, P) ==
    {i \in Live(P) :
        /\ (~isAdmin(reqUser) => P[i].isVisible)
        /\ (category # "" => P[i].category = category)
        /\ (featured # "" => P[i].isFeatured = (featured = "true"))}

\* GET /api/projects
GetProjects(cookie, header, category, featured, page, limit, sortBy, sortOrder) ==
    LET g == optionalAuth(cookie, header, users)
        sort == SortSpec(sortBy, sortOrder,
                         << <<"isFeatured", -1>>, <<"sortOrder", 1>> >>)
        found == ProjQuery(g.user, category, featured, projects)
        total == Cardinality(found) IN
    \E order \in Orders(found, projects, sort) :
        /\ Serve(Request("GET /api/projects", cookie, header, NoParam,
                         [NoBody EXCEPT !.category = category, !.featured = featured,
                                        !.page = page, !.limit = limit,
                                        !.sortBy = sortBy, !.sortOrder = sortOrder]),
                 [Success(200, "", g) EXCEPT
                    !.docs = Docs(SkipLimit(order, (page - 1) * limit, limit), projects),
                    !.total = total,
                    !.pages = Ceil(total, limit)], FALSE)
        /\ UNCHANGED <<store, now, hist>>

\* GET /api/projects/featured
GetFeaturedProjects(cookie, header, limit) ==
    LET g == optionalAuth(cookie, header, users)
        found == {i \in Live(projects) :
                     /\ projects[i].isFeatured
                     /\ (~isAdmin(g.user) => projects[i].isVisible)} IN
    \E order \in Orders(found, projects, << <<"sortOrder", 1>>, <<"createdAt", -1>> >>) :
        /\ Serve(Request("GET /api/projects/featured", cookie, header, NoParam,
                         [NoBody EXCEPT !.limit = limit]),
                 [Success(200, "", g) EXCEPT
                    !.docs = Docs(SkipLimit(order, 0, limit), projects)], FALSE)
        /\ UNCHANGED <<store, now, hist>>

\* GET /api/projects/:id; the increment of views is issued before the
\* response and not awaited
GetProjectByIdResult(g, param, P, t) ==
    IF ~castable(param)
    THEN [res |-> Failure(500, "Error fetching project", g), projects |-> P,
          wrote |-> FALSE]
    ELSE IF \/ param.oid \notin Live(P)
            \/ (~isAdmin(g.user) /\ ~P[param.oid].isVisible)
    THEN [res |-> Failure(404, "Project not found", g), projects |-> P,
          wrote |-> FALSE]
    ELSE [res |-> [Success(200, "", g) EXCEPT !.docs = Docs(<<param.oid>>, P),
                                              !.pre = P[param.oid]],
          projects |-> [P EXCEPT ![param.oid].views = @ + 1,
                                 ![param.oid].updatedAt = t],
          wrote |-> TRUE]

GetProjectById(cookie, header, param) ==
    LET g == optionalAuth(cookie, header, users)
        r == GetProjectByIdResult(g, param, projects, now + 1) IN
    /\ r.wrote => now < MaxClock
    /\ projects' = r.projects
    /\ now' = IF r.wrote THEN now + 1 ELSE now
    /\ Serve(Request("GET /api/projects/:id", cookie, header, param, NoBody), r.res, r.projects # projects)
    /\ UNCHANGED <<users, education, contacts, hist>>

\* the validators of POST /api/projects (create) and PUT /api/projects/:id
ProjErrors(body, create) ==
    {f \in {"category"} :
        ~(IF body.category = "" THEN ~create ELSE body.category \in Categories)}
    \cup {f \in {"startDate"} :
        ~(IF body.startDate = 0 THEN ~create ELSE body.startDate > 0)}
    \cup {f \in {"status"} : ~(body.status # "" => body.status \in ProjStatuses)}

ProjBodyValid(body, create) == ProjErrors(body, create) = {}

\* POST /api/projects
PostProjectResult(g, body, P, t) ==
    IF g.next = 0 THEN [res |-> Rejected(g), projects |-> P, wrote |-> FALSE]
    ELSE IF ~ProjBodyValid(body, TRUE)
    THEN [res |-> ValidationFailed(g, ProjErrors(body, TRUE)), projects |-> P, wrote |-> FALSE]
    ELSE IF body.isOngoing # "" /\ ~booleanCastable(body.isOngoing)
    THEN [res |-> Failure(500, "Error creating project", g),
          projects |-> P, wrote |-> FALSE]
    ELSE LET id == NewId(P)
             doc == [NoProj EXCEPT !.exists = TRUE, !.isVisible = TRUE,
                                   !.category = body.category,
                                   !.endDate = endDateOf(body, body.isOngoing).value,
                                   !.isOngoing = castBoolean(body.isOngoing),
                                   !.status = IF statusOf(body) = "" THEN "completed"
                                              ELSE statusOf(body),
                                   !.createdBy = g.user.id,
                                   !.createdAt = t, !.updatedAt = t] IN
         [res |-> [Success(201, "Project created successfully", g)
                     EXCEPT !.docs = << [id |-> id, isVisible |-> TRUE] >>],
          projects |-> [P EXCEPT ![id] = doc], wrote |-> TRUE]

PostProject(cookie, header, body) ==
    LET g == protectAdmin(cookie, header, users)
        r == PostProjectResult(g, body, projects, now + 1) IN
    /\ (/\ g.next = 1 /\ ProjBodyValid(body, TRUE)
        /\ (body.isOngoing # "" => booleanCastable(body.isOngoing)))
          => (FreeIds(projects) # {} /\ now < MaxClock)
    /\ projects' = r.projects
    /\ now' = IF r.wrote THEN now + 1 ELSE now
    /\ Serve(Request("POST /api/projects", cookie, header, NoParam, body), r.res, r.projects # projects)
    /\ UNCHANGED <<users, education, contacts, hist>>

\* PUT /api/projects/:id
PutProjectResult(g, param, body, P, t) ==
    IF g.next = 0 THEN [res |-> Rejected(g), projects |-> P, wrote |-> FALSE]
    ELSE IF ~ProjBodyValid(body, FALSE)
    THEN [res |-> ValidationFailed(g, ProjErrors(body, FALSE)), projects |-> P, wrote |-> FALSE]
    ELSE IF ~castable(param)
    THEN [res |-> Failure(500, "Error updating project", g),
          projects |-> P, wrote |-> FALSE]
    ELSE IF param.oid \notin Live(P)
    THEN [res |-> Failure(404, "Project not found", g),
          projects |-> P, wrote |-> FALSE]
    ELSE IF body.isOngoing # "" /\ ~booleanCastable(body.isOngoing)
    THEN [res |-> Failure(500, "Error updating project", g),
          projects |-> P, wrote |-> FALSE]
    ELSE LET old == P[param.oid]
             end == endDateOf(body, body.isOngoing)
             doc == [old EXCEPT
                       !.category = IF body.category = "" THEN old.category
                                    ELSE body.category,
                       !.endDate = IF end.set THEN end.value ELSE old.endDate,
                       !.isOngoing = IF body.isOngoing = "" THEN old.isOngoing
                                     ELSE castBoolean(body.isOngoing),
                       !.status = IF statusOf(body) = "" THEN old.status
                                  ELSE statusOf(body),
                       !.createdBy = IF body.createdBy = 0 THEN old.createdBy
                                     ELSE body.createdBy,
                       !.updatedAt = t] IN
         [res |-> [Success(200, "Project updated successfully", g)
                     EXCEPT !.docs = << [id |-> param.oid, isVisible |-> doc.isVisible] >>,
                            !.pre = old],
          projects |-> [P EXCEPT ![param.oid] = doc], wrote |-> TRUE]

PutProject(cookie, header, param, body) ==
    LET g == protectAdmin(cookie, header, users)
        r == PutProjectResult(g, param, body, projects, now + 1) IN
    /\ r.wrote => now < MaxClock
    /\ projects' = r.projects
    /\ now' = IF r.wrote THEN now + 1 ELSE now
    /\ Serve(Request("PUT /api/projects/:id", cookie, header, param, body), r.res, r.projects # projects)
    /\ UNCHANGED <<users, education, contacts, hist>>

\* DELETE /api/projects/:id
DeleteProjectResult(g, param, P) ==
    IF g.next = 0 THEN [res |-> Rejected(g), projects |-> P]
    ELSE IF ~castable(param)
    THEN [res |-> Failure(500, "Error deleting project", g), projects |-> P]
    ELSE IF param.oid \notin Live(P)
    THEN [res |-> Failure(404, "Project not found", g), projects |-> P]
    ELSE [res |-> Success(200, "Project deleted successfully", g),
          projects |-> [P EXCEPT ![param.oid] = DeletedProj]]

DeleteProject(cookie, header, param) ==
    LET g == protectAdmin(cookie, header, users)
        r == DeleteProjectResult(g, param, projects) IN
    /\ r.res.status = 200 => now < MaxClock
    /\ projects' = r.projects
    /\ now' = IF r.res.status = 200 THEN now + 1 ELSE now
    /\ Serve(Request("DELETE /api/projects/:id", cookie, header, param, NoBody),
             r.res, r.projects # projects)
    /\ UNCHANGED <<users, education, contacts, hist>>

\* PUT /api/projects/:id/visibility and PUT /api/projects/:id/featured:
\* findById, flip the flag, save
ToggleProjectResult(g, param, field, P, t) ==
    IF g.next = 0 THEN [res |-> Rejected(g), projects |-> P, wrote |-> FALSE]
    ELSE IF ~castable(param)
    THEN [res |-> Failure(500, IF field = "isVisible"
                               THEN "Error updating visibility"
                               ELSE "Error updating featured status", g),
          projects |-> P, wrote |-> FALSE]
    ELSE IF param.oid \notin Live(P)
    THEN [res |-> Failure(404, "Project not found", g),
          projects |-> P, wrote |-> FALSE]
    ELSE LET old == P[param.oid]
             doc == [old EXCEPT ![field] = negate(old[field]), !.updatedAt = t] IN
         [res |-> [Success(200, IF field = "isVisible"
                                THEN (IF doc.isVisible
                                      THEN "Project shown successfully"
                                      ELSE "Project hidden successfully")
                                ELSE (IF doc.isFeatured
                                      THEN "Project featured successfully"
                                      ELSE "Project unfeatured successfully"), g)
                     EXCEPT !.docs = << [id |-> param.oid, isVisible |-> doc.isVisible] >>,
                            !.pre = old],
          projects |-> [P EXCEPT ![param.oid] = doc], wrote |-> TRUE]

PutProjectVisibility(cookie, header, param) ==
    LET g == protectAdmin(cookie, header, users)
        r == ToggleProjectResult(g, param, "isVisible", projects, now + 1) IN
    /\ r.wrote => now < MaxClock
    /\ projects' = r.projects
    /\ now' = IF r.wrote THEN now + 1 ELSE now
    /\ Serve(Request("PUT /api/projects/:id/visibility", cookie, header, param, NoBody),
             r.res, r.projects # projects)
    /\ UNCHANGED <<users, education, contacts, hist>>

PutProjectFeatured(cookie, header, param) ==
    LET g == protectAdmin(cookie, header, users)
        r == ToggleProjectResult(g, param, "isFeatured", projects, now + 1) IN
    /\ r.wrote => now < MaxClock
    /\ projects' = r.projects
    /\ now' = IF r.wrote THEN now + 1 ELSE now
    /\ Serve(Request("PUT /api/projects/:id/featured", cookie, header, param, NoBody),
             r.res, r.projects # projects)
    /\ UNCHANGED <<users, education, contacts, hist>>

\* likes.findIndex(like => like.userId.toString() === req.user._id.toString())
\* as a position of the sequence, 0 for -1
findIndex(likes, uid) ==
    IF \E k \in 1..Len(likes) : likes[k].userId = uid
    THEN CHOOSE k \in 1..Len(likes) :
            likes[k].userId = uid /\ \A j \in 1..(k - 1) : likes[j].userId # uid
    ELSE 0

\* likes.splice(index, 1)
splice(likes, index) ==
    SubSeq(likes, 1, index - 1) \o SubSeq(likes, index + 1, Len(likes))

\* (variant: every request adds a like)
toggleLike_accumulate(likes, uid, t) ==
    Append(likes, [userId |-> uid, timestamp |-> t])

\* the likes of a project after the like / unlike of user uid at time t
toggleLike(likes, uid, t) ==
    LET existingLikeIndex == findIndex(likes, uid) IN
    IF existingLikeIndex > 0 THEN splice(likes, existingLikeIndex)
    ELSE Append(likes, [userId |-> uid, timestamp |-> t])

\* POST /api/projects/:id/like
PostProjectLikeResult(g, param, P, t) ==
    IF g.next = 0 THEN [res |-> Rejected(g), projects |-> P, wrote |-> FALSE]
    ELSE IF ~castable(param)
    THEN [res |-> Failure(500, "Error updating project like", g),
          projects |-> P, wrote |-> FALSE]
    ELSE IF param.oid \notin Live(P)
    THEN [res |-> Failure(404, "Project not found", g),
          projects |-> P, wrote |-> FALSE]
    ELSE LET old == P[param.oid]
             likes == toggleLike(old.likes, g.user.id, t) IN
         [res |-> [Success(200, IF findIndex(old.likes, g.user.id) > 0
                                THEN "Project unliked" ELSE "Project liked", g)
                     EXCEPT !.liked = (findIndex(old.likes, g.user.id) = 0),
                            !.likeCount = Len(likes),
                            !.pre = old],
          projects |-> [P EXCEPT ![param.oid].likes = likes,
                                 ![param.oid].updatedAt = t],
          wrote |-> TRUE]

PostProjectLike(cookie, header, param) ==
    LET g == protect(cookie, header, users)
        r == PostProjectLikeResult(g, param, projects, now + 1) IN
    /\ r.wrote => now < MaxClock
    /\ projects' = r.projects
    /\ now' = IF r.wrote THEN now + 1 ELSE now
    /\ likeCalls' = IF r.wrote
                    THEN [likeCalls EXCEPT ![param.oid][g.user.id] = 1 - @]
                    ELSE likeCalls
    /\ Serve(Request("POST /api/projects/:id/like", cookie, header, param, NoBody),
             r.res, r.projects # projects)
    /\ UNCHANGED <<users, education, contacts, revoked>>

\* GET /api/education/admin/all
EduAdminQuery(type, isVisible, E) ==
    {i \in Live(E) :
        /\ (type # "" => E[i].type = type)
        /\ (isVisible # "" => E[i].isVisible = (isVisible = "true"))}

GetEducationAdminAll(cookie, header, type, isVisible, page, limit, sortBy, sortOrder) ==
    LET g == protectAdmin(cookie, header, users)
        req == Request("GET /api/education/admin/all", cookie, header, NoParam,
                       [NoBody EXCEPT !.type = type, !.isVisible = isVisible,
                                      !.page = page, !.limit = limit,
                                      !.sortBy = sortBy, !.sortOrder = sortOrder])
        found == EduAdminQuery(type, isVisible, education)
        total == Cardinality(found) IN
    /\ IF g.next = 0 THEN Serve(req, Rejected(g), FALSE)
       ELSE \E order \in Orders(found, education, SortSpec(sortBy, sortOrder, << >>)) :
               Serve(req, [Success(200, "", g) EXCEPT
                    !.docs = Docs(SkipLimit(order, (page - 1) * limit, limit), education),
                    !.total = total,
                    !.pages = Ceil(total, limit)], FALSE)
    /\ UNCHANGED <<store, now, hist>>

(***************************************************************************)
(* Contact routes                                                          *)
(***************************************************************************)
ContactStatuses == {"new", "read"}
NoContact == [exists |-> FALSE, status |-> "", createdAt |-> 0, updatedAt |-> 0]
DeletedContact == [NoContact EXCEPT !.createdAt = 1]

\* the validators of POST /api/contact
(***************************************************************************)
(* The handlers of server.js                                               *)
(***************************************************************************)
\* GET /api/health: res.json({status: 'OK', message, timestamp}); the body
\* has no success key (success reads as undefined)
HealthResponse ==
    [Response(200, FALSE, "Portfolio API is running", TRUE, 0, NoUser)
        EXCEPT !.keys = {"status", "timestamp"}]

GetHealth(cookie, header) ==
    /\ Serve(Request("GET /api/health", cookie, header, NoParam, NoBody),
             HealthResponse, FALSE)
    /\ UNCHANGED <<store, now, hist>>

\* (variant: the 404 handler reports success)
RouteNotFound_success == Response(404, TRUE, "Route not found", TRUE, 0, NoUser)

\* app.use('*', ...): the 404 handler of a path no router matches
RouteNotFound == Response(404, FALSE, "Route not found", TRUE, 0, NoUser)

Unmatched(cookie, header) ==
    /\ Serve(Request("GET /api/unknown", cookie, header, NoParam, NoBody),
             RouteNotFound, FALSE)
    /\ UNCHANGED <<store, now, hist>>

\* the statuses with which express.json() fails: 400 (the body does not
\* parse) and 413 (the body exceeds the limit)
ParserStatuses == {400, 413}

\* the error middleware: res.status(error.status || 500).json({success:
\* false, message: error.message || 'Internal server error'}); no route
\* handler runs
ErrorHandler(status, message) ==
    Response(IF status = 0 THEN 500 ELSE status, FALSE,
             IF message = "" THEN "Internal server error" ELSE message,
             FALSE, 0, NoUser)

\* POST /api/contact with a body that express.json() rejects
PostUnparsable(cookie, header, status) ==
    /\ Serve(Request("POST /api/contact", cookie, header, NoParam,
                     [NoBody EXCEPT !.parsable = FALSE]),
             ErrorHandler(status, IF status = 413 THEN "request entity too large"
                                  ELSE "Unexpected token in JSON"), FALSE)
    /\ UNCHANGED <<store, now, hist>>

\* (variant: the subject is not validated)
ContactErrors_noSubject(body) ==
    {f \in {"name"} : ~(body.nameLen >= 2 /\ body.nameLen <= 100)}
    \cup {f \in {"email"} : ~body.emailOk}
    \cup {f \in {"message"} : ~(body.messageLen >= 10 /\ body.messageLen <= 1000)}

ContactErrors(body) ==
    {f \in {"name"} : ~(body.nameLen >= 2 /\ body.nameLen <= 100)}
    \cup {f \in {"email"} : ~body.emailOk}
    \cup {f \in {"subject"} : ~(body.subjectLen >= 5 /\ body.subjectLen <= 200)}
    \cup {f \in {"message"} : ~(body.messageLen >= 10 /\ body.messageLen <= 1000)}

ContactBodyValid(body) == ContactErrors(body) = {}

\* POST /api/contact (public: no authentication middleware)
PostContactResult(body, C, t) ==
    LET g == Pass(NoUser) IN
    IF ~ContactBodyValid(body)
    THEN [res |-> [ValidationFailed(g, ContactErrors(body)) EXCEPT !.nexts = 0], contacts |-> C,
          wrote |-> FALSE]
    ELSE LET id == NewId(C) IN
         [res |-> [Success(201, "Your message has been sent successfully! I will get back to you soon.", g)
                      EXCEPT !.nexts = 0],
          contacts |-> [C EXCEPT ![id] = [exists |-> TRUE, status |-> "new",
                                          createdAt |-> t, updatedAt |-> t]],
          wrote |-> TRUE]

PostContact(cookie, header, body) ==
    LET r == PostContactResult(body, contacts, now + 1) IN
    /\ ContactBodyValid(body) => (FreeIds(contacts) # {} /\ now < MaxClock)
    /\ contacts' = r.contacts
    /\ now' = IF r.wrote THEN now + 1 ELSE now
    /\ Serve(Request("POST /api/contact", cookie, header, NoParam, body), r.res, r.contacts # contacts)
    /\ UNCHANGED <<users, education, projects, hist>>

\* GET /api/contact
GetContacts(cookie, header, status, page, limit, sortBy, sortOrder) ==
    LET g == protectAdmin(cookie, header, users)
        req == Request("GET /api/contact", cookie, header, NoParam,
                       [NoBody EXCEPT !.status = status, !.page = page,
                                      !.limit = limit,
                                      !.sortBy = sortBy, !.sortOrder = sortOrder])
        found == {i \in Live(contacts) : status # "" => contacts[i].status = status}
        total == Cardinality(found) IN
    /\ IF g.next = 0 THEN Serve(req, Rejected(g), FALSE)
       ELSE \E order \in Orders(found, contacts, SortSpec(sortBy, sortOrder, << >>)) :
               Serve(req, [Success(200, "", g) EXCEPT
                    !.docs = PlainDocs(SkipLimit(order, (page - 1) * limit, limit)),
                    !.total = total,
                    !.pages = Ceil(total, limit)], FALSE)
    /\ UNCHANGED <<store, now, hist>>

\* GET /api/contact/:id
GetContactByIdResult(g, param, C) ==
    IF g.next = 0 THEN Rejected(g)
    ELSE IF ~castable(param) THEN Failure(500, "Error fetching contact", g)
    ELSE IF param.oid \notin Live(C) THEN Failure(404, "Contact not found", g)
    ELSE Success(200, "", g)

GetContactById(cookie, header, param) ==
    LET g == protectAdmin(cookie, header, users) IN
    /\ Serve(Request("GET /api/contact/:id", cookie, header, param, NoBody),
             GetContactByIdResult(g, param, contacts), FALSE)
    /\ UNCHANGED <<store, now, hist>>

\* (variant: the record is looked up before the validation result is read)
PutContactResult_lookupFirst(g, param, body, C, t) ==
    IF g.next = 0 THEN [res |-> Rejected(g), contacts |-> C, wrote |-> FALSE]
    ELSE IF ~castable(param)
    THEN [res |-> Failure(500, "Error updating contact", g), contacts |-> C,
          wrote |-> FALSE]
    ELSE IF param.oid \notin Live(C)
    THEN [res |-> Failure(404, "Contact not found", g), contacts |-> C,
          wrote |-> FALSE]
    ELSE IF body.status \notin {"", "new", "read", "replied", "archived"}
    THEN [res |-> ValidationFailed(g, {"status"}), contacts |-> C, wrote |-> FALSE]
    ELSE [res |-> [Success(200, "Contact updated successfully", g)
                     EXCEPT !.pre = C[param.oid]],
          contacts |-> [C EXCEPT ![param.oid].status =
                                     IF body.status = "" THEN @ ELSE body.status,
                                 ![param.oid].updatedAt = t],
          wrote |-> TRUE]

\* PUT /api/contact/:id
PutContactResult(g, param, body, C, t) ==
    IF g.next = 0 THEN [res |-> Rejected(g), contacts |-> C, wrote |-> FALSE]
    ELSE IF body.status \notin {"", "new", "read", "replied", "archived"}
    THEN [res |-> ValidationFailed(g, {"status"}), contacts |-> C, wrote |-> FALSE]
    ELSE IF ~castable(param)
    THEN [res |-> Failure(500, "Error updating contact", g), contacts |-> C,
          wrote |-> FALSE]
    ELSE IF param.oid \notin Live(C)
    THEN [res |-> Failure(404, "Contact not found", g), contacts |-> C,
          wrote |-> FALSE]
    ELSE [res |-> [Success(200, "Contact updated successfully", g)
                     EXCEPT !.pre = C[param.oid]],
          contacts |-> [C EXCEPT ![param.oid].status =
                                     IF body.status = "" THEN @ ELSE body.status,
                                 ![param.oid].updatedAt = t],
          wrote |-> TRUE]

PutContact(cookie, header, param, body) ==
    LET g == protectAdmin(cookie, header, users)
        r == PutContactResult(g, param, body, contacts, now + 1) IN
    /\ r.wrote => now < MaxClock
    /\ contacts' = r.contacts
    /\ now' = IF r.wrote THEN now + 1 ELSE now
    /\ Serve(Request("PUT /api/contact/:id", cookie, header, param, body), r.res, r.contacts # contacts)
    /\ UNCHANGED <<users, education, projects, hist>>

\* DELETE /api/contact/:id
DeleteContactResult(g, param, C) ==
    IF g.next = 0 THEN [res |-> Rejected(g), contacts |-> C]
    ELSE IF ~castable(param)
    THEN [res |-> Failure(500, "Error deleting contact", g), contacts |-> C]
    ELSE IF param.oid \notin Live(C)
    THEN [res |-> Failure(404, "Contact not found", g), contacts |-> C]
    ELSE [res |-> Success(200, "Contact deleted successfully", g),
          contacts |-> [C EXCEPT ![param.oid] = DeletedContact]]

DeleteContact(cookie, header, param) ==
    LET g == protectAdmin(cookie, header, users)
        r == DeleteContactResult(g, param, contacts) IN
    /\ r.res.status = 200 => now < MaxClock
    /\ contacts' = r.contacts
    /\ now' = IF r.res.status = 200 THEN now + 1 ELSE now
    /\ Serve(Request("DELETE /api/contact/:id", cookie, header, param, NoBody),
             r.res, r.contacts # contacts)
    /\ UNCHANGED <<users, education, projects, hist>>

\* GET /api/contact/stats/dashboard
GetContactStats(cookie, header) ==
    LET g == protectAdmin(cookie, header, users) IN
    /\ Serve(Request("GET /api/contact/stats/dashboard", cookie, header, NoParam, NoBody),
             IF g.next = 0 THEN Rejected(g) ELSE Success(200, "", g), FALSE)
    /\ UNCHANGED <<store, now, hist>>

\* GET /api/user/all
UserQuery(role, isActive, U) ==
    {i \in Live(U) :
        /\ (role # "" => U[i].role = role)
        /\ (isActive # "" => U[i].isActive = (isActive = "true"))}

GetUsers(cookie, header, role, isActive, page, limit, sortBy, sortOrder) ==
    LET g == protectAdmin(cookie, header, users)
        req == Request("GET /api/user/all", cookie, header, NoParam,
                       [NoBody EXCEPT !.role = role, !.isActive = isActive,
                                      !.page = page, !.limit = limit,
                                      !.sortBy = sortBy, !.sortOrder = sortOrder])
        found == UserQuery(role, isActive, users)
        total == Cardinality(found) IN
    /\ IF g.next = 0 THEN Serve(req, Rejected(g), FALSE)
       ELSE \E order \in Orders(found, users, SortSpec(sortBy, sortOrder, << >>)) :
               Serve(req, [Success(200, "", g) EXCEPT
                    !.docs = PlainDocs(SkipLimit(order, (page - 1) * limit, limit)),
                    !.total = total,
                    !.pages = Ceil(total, limit)], FALSE)
    /\ UNCHANGED <<store, now, hist>>

(***************************************************************************)
(* The server: the seeded admin (user 1) and the registered users, empty   *)
(* collections, and every route of the four routers.                       *)
(***************************************************************************)
InitUsers ==
    [u \in UserIds |->
        [exists |-> TRUE, role |-> IF u = 1 THEN "admin" ELSE "user",
         isActive |-> TRUE, createdAt |-> 1]]

Init ==
    /\ users = InitUsers
    /\ education = [e \in EduIds |-> NoEdu]
    /\ projects = [p \in ProjIds |-> NoProj]
    /\ contacts = [c \in ContactIds |-> NoContact]
    /\ now = 0
    /\ last = NoLast
    /\ prior = NoPrior
    /\ revoked = {}
    /\ likeCalls = [p \in ProjIds |-> [u \in UserIds |-> 0]]
    /\ walk = NoWalk
    /\ flight = NoFlights
    /\ client = NoClient

\* The requests of a behaviour.  Credentials: no token, a token that
\* jwt.verify rejects, or the valid token of a user, in the Authorization
\* header.
Bearer(tok) == [scheme |-> "Bearer", tok |-> tok]
Creds == {<<NoToken, NoHeader>>, <<NoToken, Bearer([kind |-> "expired", id |-> 1])>>} \cup
         {<<NoToken, Bearer([kind |-> "valid", id |-> u])>> : u \in UserIds}

DocParams(S) == {p \in ParamIds(S) : p.form # "upper"}
RoleInputs == {"user", "admin", "root"}
IsActiveInputs == {"true", "false", "'false'", "'yes'"}

UserRequest(cookie, header) ==
    \/ \E param \in ParamIds(UserIds), role \in RoleInputs :
          PutUserRole(cookie, header, param, role)
    \/ \E param \in ParamIds(UserIds), isActive \in IsActiveInputs :
          PutUserStatus(cookie, header, param, isActive)
    \/ \E param \in ParamIds(UserIds) : DeleteUser(cookie, header, param)
    \/ \E param \in DocParams(UserIds) : GetUser(cookie, header, param)
    \/ GetUserStats(cookie, header)
    \/ \E role \in {"", "admin"} :
          GetUsers(cookie, header, role, "", 1, 1, "createdAt", "desc")

EducationRequest(cookie, header) ==
    \/ \E type \in {"", "formal"} :
          GetEducation(cookie, header, type, 1, "startDate", "desc")
    \/ \E param \in DocParams(EduIds) : GetEducationById(cookie, header, param)
    \/ \E type \in {"", "course", "bogus"} :
          PostEducation(cookie, header,
                        [NoBody EXCEPT !.type = type, !.startDate = 1])
    \/ \E param \in DocParams(EduIds), type \in {"course", "bogus"} :
          PutEducation(cookie, header, param, [NoBody EXCEPT !.type = type])
    \/ \E param \in DocParams(EduIds) : DeleteEducation(cookie, header, param)
    \/ \E param \in DocParams(EduIds) : PutEducationVisibility(cookie, header, param)
    \/ \E isVisible \in {"", "false"} :
          GetEducationAdminAll(cookie, header, "", isVisible, 1, 1,
                               "createdAt", "desc")

ProjectRequest(cookie, header) ==
    \/ \E featured \in {"", "false"} :
          GetProjects(cookie, header, "", featured, 1, 1, "createdAt", "desc")
    \/ GetFeaturedProjects(cookie, header, 1)
    \/ \E param \in DocParams(ProjIds) : GetProjectById(cookie, header, param)
    \/ \E category \in {"other", "bogus"} :
          PostProject(cookie, header,
                      [NoBody EXCEPT !.category = category, !.startDate = 1])
    \/ \E param \in DocParams(ProjIds), category \in {"web-development", "bogus"} :
          PutProject(cookie, header, param, [NoBody EXCEPT !.category = category])
    \/ \E param \in DocParams(ProjIds) : DeleteProject(cookie, header, param)
    \/ \E param \in DocParams(ProjIds) : PutProjectVisibility(cookie, header, param)
    \/ \E param \in DocParams(ProjIds) : PutProjectFeatured(cookie, header, param)
    \/ \E param \in DocParams(ProjIds) : PostProjectLike(cookie, header, param)

\* {name: "Jo", email: "bad", subject: "Hi", message: "short"}
JoBody == [NoBody EXCEPT !.nameLen = 2, !.emailOk = FALSE,
                         !.subjectLen = 2, !.messageLen = 5]
ContactBodies ==
    {[NoBody EXCEPT !.nameLen = nameLen, !.emailOk = TRUE,
                    !.subjectLen = 5, !.messageLen = 10] : nameLen \in {1, 2}}
    \cup {JoBody}

ContactRequest(cookie, header) ==
    \/ \E body \in ContactBodies : PostContact(cookie, header, body)
    \/ \E status \in {"", "new"} :
          GetContacts(cookie, header, status, 1, 1, "createdAt", "desc")
    \/ \E param \in DocParams(ContactIds) : GetContactById(cookie, header, param)
    \/ \E param \in DocParams(ContactIds), status \in {"read", "bogus"} :
          PutContact(cookie, header, param, [NoBody EXCEPT !.status = status])
    \/ \E param \in DocParams(ContactIds) : DeleteContact(cookie, header, param)
    \/ GetContactStats(cookie, header)

ServerRequest(cookie, header) ==
    \/ GetHealth(cookie, header)
    \/ Unmatched(cookie, header)
    \/ \E status \in ParserStatuses : PostUnparsable(cookie, header, status)

Next ==
    \/ /\ last = NoLast
       /\ \E cred \in Creds :
             \/ UserRequest(cred[1], cred[2])
             \/ EducationRequest(cred[1], cred[2])
             \/ ProjectRequest(cred[1], cred[2])
             \/ ContactRequest(cred[1], cred[2])
             \/ ServerRequest(cred[1], cred[2])
       /\ UNCHANGED walk
    \/ Idle

Spec == Init /\ [][Next]_vars

(***************************************************************************)
(* SpecDocs: the routes of the education and project records, from a store *)
(* that holds one record of each collection, both created by one of the    *)
(* users while that user was an admin.                                     *)
(***************************************************************************)
SeedEdu(isVisible, createdBy) ==
    [NoEdu EXCEPT !.exists = TRUE, !.isVisible = isVisible, !.type = "formal",
                  !.startDate = 1, !.createdBy = createdBy,
                  !.createdAt = 1, !.updatedAt = 1]

SeedProj(isVisible, isFeatured, createdBy) ==
    [NoProj EXCEPT !.exists = TRUE, !.isVisible = isVisible,
                   !.isFeatured = isFeatured, !.category = "other",
                   !.status = "completed",
                   !.createdBy = createdBy, !.createdAt = 1, !.updatedAt = 1]

InitDocs ==
    /\ users = InitUsers
    /\ \E createdBy \in UserIds :
          /\ education = [e \in EduIds |->
                             IF e = 1 THEN SeedEdu(TRUE, createdBy) ELSE NoEdu]
          /\ projects = [p \in ProjIds |->
                            IF p = 1 THEN SeedProj(TRUE, FALSE, createdBy)
                            ELSE NoProj]
    /\ contacts = [c \in ContactIds |-> NoContact]
    /\ now = 0
    /\ last = NoLast
    /\ prior = NoPrior
    /\ revoked = {}
    /\ likeCalls = [p \in ProjIds |-> [u \in UserIds |-> 0]]
    /\ walk = NoWalk
    /\ flight = NoFlights
    /\ client = NoClient

NextDocs ==
    \/ /\ last = NoLast
       /\ \E cred \in Creds :
             \/ EducationRequest(cred[1], cred[2])
             \/ ProjectRequest(cred[1], cred[2])
       /\ UNCHANGED walk
    \/ Idle

SpecDocs == InitDocs /\ [][NextDocs]_vars

(***************************************************************************)
(* SpecRead: the read routes, for every state of the users and of one      *)
(* collection (the reads of a collection do not look at the other one),    *)
(* and for the token in the cookie, in the Authorization header or in      *)
(* both.  The clock has room for one write (the view counter).             *)
(***************************************************************************)
UserStates ==
    [exists : {TRUE}, role : {"user", "admin"}, isActive : BOOLEAN, createdAt : {1}]
       \cup {[exists |-> FALSE, role |-> "user", isActive |-> TRUE, createdAt |-> 1]}

InitRead ==
    /\ users \in {U \in [UserIds -> UserStates] : U[1] = InitUsers[1]}
    /\ \/ /\ education \in [EduIds -> {NoEdu, SeedEdu(TRUE, 1), SeedEdu(FALSE, 1)}]
          /\ projects = [p \in ProjIds |-> NoProj]
       \/ /\ education = [e \in EduIds |-> NoEdu]
          /\ projects \in [ProjIds -> {NoProj} \cup
                              {SeedProj(v, f, 1) : v \in BOOLEAN, f \in BOOLEAN}]
    /\ contacts = [c \in ContactIds |-> NoContact]
    /\ now = MaxClock - 1
    /\ last = NoLast
    /\ prior = NoPrior
    /\ revoked = {}
    /\ likeCalls = [p \in ProjIds |-> [u \in UserIds |-> 0]]
    /\ walk = NoWalk
    /\ flight = NoFlights
    /\ client = NoClient

ReadRequest(cookie, header) ==
    \/ \E type \in {"", "formal"} :
          GetEducation(cookie, header, type, 1, "startDate", "desc")
    \/ \E param \in DocParams(EduIds) : GetEducationById(cookie, header, param)
    \/ \E featured \in {"", "false"} :
          GetProjects(cookie, header, "", featured, 1, 1, "createdAt", "desc")
    \/ GetFeaturedProjects(cookie, header, 1)
    \/ \E param \in DocParams(ProjIds) : GetProjectById(cookie, header, param)
    \/ GetEducationAdminAll(cookie, header, "", "", 1, 1, "createdAt", "desc")

ReadCreds == {<<cookie, NoHeader>> : cookie \in TokenOpt} \cup
             {<<NoToken, header>> : header \in Headers} \cup
             {<<cookie, Bearer([kind |-> "valid", id |-> h])>> :
                 cookie \in Tokens, h \in UserIds}

NextRead ==
    \/ /\ last = NoLast
       /\ \E cred \in ReadCreds : ReadRequest(cred[1], cred[2])
       /\ UNCHANGED walk
    \/ Idle

SpecRead == InitRead /\ [][NextRead]_vars

(***************************************************************************)
(* SpecPage: a client walks through the pages of a listing.  Every id of   *)
(* every collection is a record, the records of a collection were created  *)
(* at different times, and nothing is written.                             *)
(***************************************************************************)
MaxLimit == 2
Pages == 1..(NumUsers + 1)
Limits == 1..MaxLimit

InitPage ==
    /\ users = [u \in UserIds |-> [InitUsers[u] EXCEPT !.createdAt = u]]
    /\ education = [e \in EduIds |->
                       [SeedEdu(TRUE, 1) EXCEPT !.createdAt = e, !.updatedAt = e]]
    /\ projects = [p \in ProjIds |->
                      [SeedProj(TRUE, FALSE, 1) EXCEPT !.createdAt = p,
                                                       !.updatedAt = p]]
    /\ contacts = [c \in ContactIds |->
                      [exists |-> TRUE, status |-> "new", createdAt |-> c,
                       updatedAt |-> c]]
    /\ now = MaxClock
    /\ last = NoLast
    /\ prior = NoPrior
    /\ revoked = {}
    /\ likeCalls = [p \in ProjIds |-> [u \in UserIds |-> 0]]
    /\ walk = NoWalk
    /\ flight = NoFlights
    /\ client = NoClient

PageCreds == {<<NoToken, NoHeader>>, <<NoToken, Bearer([kind |-> "valid", id |-> 1])>>}

PageRequest(cookie, header, page, limit) ==
    \/ \E role \in {"", "user"}, sortBy \in {"createdAt", "isActive"} :
          GetUsers(cookie, header, role, "", page, limit, sortBy, "desc")
    \/ \E sortBy \in {"createdAt", "status"} :
          GetContacts(cookie, header, "", page, limit, sortBy, "desc")
    \/ \E sortBy \in {"createdAt", "category"} :
          GetProjects(cookie, header, "", "", page, limit, sortBy, "desc")
    \/ \E sortBy \in {"createdAt", "type"} :
          GetEducationAdminAll(cookie, header, "", "", page, limit, sortBy, "desc")

NextPage ==
    \/ /\ last = NoLast
       /\ \E cred \in PageCreds, page \in Pages, limit \in Limits :
             PageRequest(cred[1], cred[2], page, limit)
       /\ walk' = Turn(walk, last')
    \/ Idle

SpecPage == InitPage /\ [][NextPage]_vars

(***************************************************************************)
(* The education listing over a collection of several records: every       *)
(* assignment of visibility, type, start date and sortOrder to NumListed   *)
(* stored records.                                                         *)
(***************************************************************************)
NumListed == 2
ListedIds == 1..NumListed
DefaultLimit == 20

ListedEdu ==
    {[NoEdu EXCEPT !.exists = TRUE, !.isVisible = isVisible, !.type = type,
                   !.startDate = startDate, !.sortOrder = sortOrder,
                   !.createdBy = 1, !.createdAt = 1, !.updatedAt = 1] :
        isVisible \in BOOLEAN, type \in EduTypes,
        startDate \in {1, 2}, sortOrder \in {0, 1}}

InitList ==
    /\ users = InitUsers
    /\ education \in [ListedIds -> ListedEdu]
    /\ projects = [i \in ProjIds |-> NoProj]
    /\ contacts = [i \in ContactIds |-> NoContact]
    /\ now = 1
    /\ last = NoLast
    /\ prior = NoPrior
    /\ revoked = {}
    /\ likeCalls = [p \in ProjIds |-> [u \in UserIds |-> 0]]
    /\ walk = NoWalk
    /\ flight = NoFlights
    /\ client = NoClient

ListCreds == {<<NoToken, NoHeader>>, <<NoToken, Bearer([kind |-> "valid", id |-> 1])>>}

\* sortBy, sortOrder of a listing
ListSorts == {<<"startDate", "desc">>, <<"startDate", "asc">>, <<"sortOrder", "asc">>}

NextList ==
    \/ /\ \E cred \in ListCreds, type \in {"", "formal"},
            limit \in {1, DefaultLimit}, sort \in ListSorts :
             GetEducation(cred[1], cred[2], type, limit, sort[1], sort[2])
       /\ UNCHANGED walk
    \/ Idle

SpecList == InitList /\ [][NextList]_vars

(***************************************************************************)
(* Concurrent requests.  A handler runs to its next await in one step; the *)
(* store serves one call at a time; a call to the store may fail (ok =     *)
(* FALSE), which rejects the promise the handler awaits.                   *)
(***************************************************************************)
\* the routes that negate a flag of a record
FlagRoutes == {"PUT /api/education/:id/visibility",
               "PUT /api/projects/:id/visibility",
               "PUT /api/projects/:id/featured"}
RaceRoutes == FlagRoutes \cup {"GET /api/projects/:id"}
CollectionOf(route) ==
    IF route = "PUT /api/education/:id/visibility" THEN education ELSE projects
IdsOf(route) ==
    IF route = "PUT /api/education/:id/visibility" THEN EduIds ELSE ProjIds
StoredFlag(E, P, f) ==
    IF f.route = "PUT /api/education/:id/visibility" THEN E[f.oid].isVisible
    ELSE IF f.route = "PUT /api/projects/:id/visibility" THEN P[f.oid].isVisible
    ELSE P[f.oid].isFeatured

\* the message of the catch block of a route
CatchMessage(route) ==
    IF route = "GET /api/projects/:id" THEN "Error fetching project"
    ELSE IF route = "PUT /api/projects/:id/featured"
    THEN "Error updating featured status"
    ELSE IF route = "POST /api/projects/:id/like" THEN "Error updating project like"
    ELSE IF route = "PUT /api/user/:id/role" THEN "Error updating user role"
    ELSE IF route = "DELETE /api/education/:id" THEN "Error deleting education record"
    ELSE "Error updating visibility"

Respond(f, status, success, message) ==
    [f EXCEPT !.stage = "done", !.status = status, !.success = success,
              !.message = message, !.responses = @ + 1]

\* protect, adminOnly (the toggles) or optionalAuth (GET /api/projects/:id):
\* User.findById is called for a token that verifies; when it fails, the
\* catch of protect answers 401 and the catch of optionalAuth calls next()
Authenticate(s, route, oid, cookie, header, ok) ==
    LET called == verifyToken(extractToken(cookie, header)).ok
        failed == called /\ ~ok
        f == [NoFlight EXCEPT !.route = route, !.oid = oid,
                              !.faults = IF failed THEN {"auth"} ELSE {}]
        g == IF route = "GET /api/projects/:id"
             THEN (IF failed THEN Pass(NoUser) ELSE optionalAuth(cookie, header, users))
             ELSE IF failed THEN Reject(401, "Token is invalid or expired.")
             ELSE IF route = "POST /api/projects/:id/like"
             THEN protect(cookie, header, users)
             ELSE protectAdmin(cookie, header, users) IN
    /\ flight[s].stage = "none"
    /\ (~ok => called)
    /\ flight' = [flight EXCEPT ![s] =
                    IF g.next = 0 THEN Respond(f, g.status, FALSE, g.message)
                    ELSE [f EXCEPT !.stage = "authed", !.user = g.user]]
    /\ UNCHANGED <<store, now, last, prior, hist, walk, client>>

\* (variant: the increment is applied before the response is sent)
issueIncrement_await(P, oid, t) ==
    [projects |-> [P EXCEPT ![oid].views = @ + 1, ![oid].updatedAt = t],
     inc |-> "applied"]

\* Project.findByIdAndUpdate(id, {$inc: {views: 1}}).exec(), not awaited:
\* the update is on its way to the store
issueIncrement(P, oid, t) == [projects |-> P, inc |-> "pending"]

\* the requests whose 200 for project oid has been sent
Sent(oid) ==
    {s \in Slots : /\ flight[s].route = "GET /api/projects/:id"
                   /\ flight[s].oid = oid
                   /\ flight[s].stage = "done" /\ flight[s].status = 200}

\* Project.findOne(query) of GET /api/projects/:id and all that follows it
FindProject(s, ok) ==
    LET f == flight[s]
        r == issueIncrement(projects, f.oid, now + 1) IN
    /\ f.stage = "authed" /\ f.route = "GET /api/projects/:id"
    /\ IF ~ok
       THEN /\ flight' = [flight EXCEPT ![s] =
                   Respond([f EXCEPT !.faults = @ \cup {"find"}], 500, FALSE,
                           CatchMessage(f.route))]
            /\ UNCHANGED <<projects, now>>
       ELSE IF \/ f.oid \notin Live(projects)
               \/ (~isAdmin(f.user) /\ ~projects[f.oid].isVisible)
       THEN /\ flight' = [flight EXCEPT ![s] =
                   Respond(f, 404, FALSE, "Project not found")]
            /\ UNCHANGED <<projects, now>>
       ELSE /\ r.projects # projects => now < MaxClock
            /\ projects' = r.projects
            /\ now' = IF r.projects # projects THEN now + 1 ELSE now
            /\ flight' = [flight EXCEPT ![s] =
                   Respond([f EXCEPT !.views = projects[f.oid].views,
                                     !.inc = r.inc,
                                     !.seen = Sent(f.oid),
                                     !.behind = {q \in Sent(f.oid) :
                                                    flight[q].inc # "applied"}],
                           200, TRUE, "")]
    /\ UNCHANGED <<users, education, contacts, last, prior, hist, walk, client>>

\* (variant: the handler writes back the views it read plus one)
incViews_readModifyWrite(stored, read) == read + 1

\* {$inc: {views: 1}}: the store adds one to the value it holds when the
\* update arrives, whatever the handler read
incViews(stored, read) == stored + 1

\* the store applies, or fails to apply, the increment; nothing awaits its
\* promise and nothing handles its rejection
ApplyIncrement(s, ok) ==
    LET f == flight[s] IN
    /\ f.inc = "pending"
    /\ IF ok /\ f.oid \in Live(projects)
       THEN /\ now < MaxClock
            /\ projects' = [projects EXCEPT ![f.oid].views = incViews(@, f.views),
                                            ![f.oid].updatedAt = now + 1]
            /\ now' = now + 1
            /\ flight' = [flight EXCEPT ![s].inc = "applied"]
       ELSE /\ flight' = [flight EXCEPT ![s].inc = "failed",
                                        ![s].faults = @ \cup {"inc"}]
            /\ UNCHANGED <<projects, now>>
    /\ UNCHANGED <<users, education, contacts, last, prior, hist, walk, client>>

\* findById(req.params.id) of a toggle
FindById(s, ok) ==
    LET f == flight[s] IN
    /\ f.stage = "authed" /\ f.route \in FlagRoutes
    /\ flight' = [flight EXCEPT ![s] =
          IF ~ok
          THEN Respond([f EXCEPT !.faults = @ \cup {"find"}], 500, FALSE,
                       CatchMessage(f.route))
          ELSE IF f.oid \notin Live(CollectionOf(f.route))
          THEN Respond(f, 404, FALSE,
                       IF f.route = "PUT /api/education/:id/visibility"
                       THEN "Education record not found" ELSE "Project not found")
          ELSE [f EXCEPT !.stage = "loaded",
                         !.read = StoredFlag(education, projects, f)]]
    /\ UNCHANGED <<store, now, last, prior, hist, walk, client>>

\* (variant: the store negates the flag it holds)
flip_stored(read, stored) == negate(stored)

\* doc.isVisible = !doc.isVisible on the document that findById returned
flip(read, stored) == negate(read)

\* doc.save() of a toggle and the response: the modified flag and updatedAt
\* are written
Save(s, ok) ==
    LET f == flight[s]
        value == flip(f.read, StoredFlag(education, projects, f)) IN
    /\ f.stage = "loaded"
    /\ IF ~ok
       THEN /\ flight' = [flight EXCEPT ![s] =
                   Respond([f EXCEPT !.faults = @ \cup {"save"}], 500, FALSE,
                           CatchMessage(f.route))]
            /\ UNCHANGED <<education, projects, now>>
       ELSE /\ now < MaxClock
            /\ now' = now + 1
            /\ education' =
                  IF f.route = "PUT /api/education/:id/visibility"
                  THEN [education EXCEPT ![f.oid].isVisible = value,
                                         ![f.oid].updatedAt = now + 1]
                  ELSE education
            /\ projects' =
                  IF f.route = "PUT /api/projects/:id/visibility"
                  THEN [projects EXCEPT ![f.oid].isVisible = value,
                                        ![f.oid].updatedAt = now + 1]
                  ELSE IF f.route = "PUT /api/projects/:id/featured"
                  THEN [projects EXCEPT ![f.oid].isFeatured = value,
                                        ![f.oid].updatedAt = now + 1]
                  ELSE projects
            /\ flight' = [flight EXCEPT ![s] = Respond(f, 200, TRUE, "")]
    /\ UNCHANGED <<users, contacts, last, prior, hist, walk, client>>

InitRace ==
    /\ users = InitUsers
    /\ \E isVisible \in BOOLEAN :
          /\ education = [e \in EduIds |->
                             IF e = 1 THEN SeedEdu(isVisible, 1) ELSE NoEdu]
          /\ projects = [p \in ProjIds |->
                             IF p = 1 THEN SeedProj(isVisible, FALSE, 1) ELSE NoProj]
    /\ contacts = [i \in ContactIds |-> NoContact]
    /\ now = 0
    /\ last = NoLast
    /\ prior = NoPrior
    /\ revoked = {}
    /\ likeCalls = [p \in ProjIds |-> [u \in UserIds |-> 0]]
    /\ walk = NoWalk
    /\ flight = NoFlights
    /\ client = NoClient

RaceCreds == {<<NoToken, NoHeader>>, <<NoToken, Bearer([kind |-> "valid", id |-> 1])>>}

NextRace ==
    \E s \in Slots, ok \in BOOLEAN :
        \/ \E route \in RaceRoutes, cred \in RaceCreds :
              \E oid \in IdsOf(route) :
                  Authenticate(s, route, oid, cred[1], cred[2], ok)
        \/ FindProject(s, ok)
        \/ ApplyIncrement(s, ok)
        \/ FindById(s, ok)
        \/ Save(s, ok)

SpecRace == InitRace /\ [][NextRace]_vars

(***************************************************************************)
(* SpecForm: the create and update routes of education and projects, for   *)
(* bodies that carry the flags, an endDate, a status and a createdBy, by   *)
(* the seeded admin and by a promoted second admin.                        *)
(***************************************************************************)
FlagInputs == {"", "true", "false", "'false'", "'maybe'"}
EduForms ==
    {[NoBody EXCEPT !.endDate = endDate, !.isCurrentlyStudying = flag,
                    !.createdBy = createdBy] :
        endDate \in {0, 2}, flag \in FlagInputs, createdBy \in {0, 2}}
ProjForms ==
    {[NoBody EXCEPT !.endDate = endDate, !.isOngoing = flag, !.status = status,
                    !.createdBy = createdBy] :
        endDate \in {0, 2}, flag \in FlagInputs, status \in {"", "completed"},
        createdBy \in {0, 2}}

InitForm ==
    /\ users = [InitUsers EXCEPT ![2].role = "admin"]
    /\ \/ /\ education = [e \in EduIds |-> NoEdu]
          /\ projects = [p \in ProjIds |-> NoProj]
       \/ /\ education = [e \in EduIds |-> IF e = 1 THEN SeedEdu(TRUE, 1) ELSE NoEdu]
          /\ projects = [p \in ProjIds |-> IF p = 1 THEN SeedProj(TRUE, FALSE, 1)
                                           ELSE NoProj]
    /\ contacts = [i \in ContactIds |-> NoContact]
    /\ now = 0
    /\ last = NoLast
    /\ prior = NoPrior
    /\ revoked = {}
    /\ likeCalls = [p \in ProjIds |-> [u \in UserIds |-> 0]]
    /\ walk = NoWalk
    /\ flight = NoFlights
    /\ client = NoClient

FormCreds == {<<NoToken, Bearer([kind |-> "valid", id |-> u])>> : u \in {1, 2}}

FormRequest(cookie, header) ==
    \/ \E body \in EduForms :
          PostEducation(cookie, header, [body EXCEPT !.startDate = 1])
    \/ \E body \in EduForms : PutEducation(cookie, header, [oid |-> 1, form |-> "lower"], body)
    \/ \E body \in ProjForms :
          PostProject(cookie, header, [body EXCEPT !.startDate = 1, !.category = "other"])
    \/ \E body \in ProjForms : PutProject(cookie, header, [oid |-> 1, form |-> "lower"], body)

NextForm ==
    \/ /\ last = NoLast
       /\ \E cred \in FormCreds : FormRequest(cred[1], cred[2])
       /\ UNCHANGED walk
    \/ Idle

SpecForm == InitForm /\ [][NextForm]_vars

(***************************************************************************)
(* SpecLikes: concurrent like requests.  save() of a document whose likes  *)
(* were pushed to sends $push and increments __v; save() after a splice    *)
(* sends $set of the whole array, conditional on the __v that was read     *)
(* (a VersionError otherwise).                                             *)
(***************************************************************************)
\* Project.findById(req.params.id) of the like route
FindLiked(s, ok) ==
    LET f == flight[s] IN
    /\ f.stage = "authed" /\ f.route = "POST /api/projects/:id/like"
    /\ flight' = [flight EXCEPT ![s] =
          IF ~ok
          THEN Respond([f EXCEPT !.faults = @ \cup {"find"}], 500, FALSE,
                       CatchMessage(f.route))
          ELSE IF f.oid \notin Live(projects)
          THEN Respond(f, 404, FALSE, "Project not found")
          ELSE [f EXCEPT !.stage = "loaded", !.likes = projects[f.oid].likes,
                         !.stale = FALSE]]
    /\ UNCHANGED <<store, now, last, prior, hist, walk, client>>

\* the other requests that hold a document of project oid
Holders(s, oid) ==
    {q \in Slots \ {s} : /\ flight[q].stage = "loaded"
                         /\ flight[q].route = "POST /api/projects/:id/like"
                         /\ flight[q].oid = oid}

\* project.save() of the like route and the response
SaveLike(s, ok) ==
    LET f == flight[s]
        existingLikeIndex == findIndex(f.likes, f.user.id)
        entry == [userId |-> f.user.id, timestamp |-> now + 1]
        refused == existingLikeIndex > 0 /\ f.stale IN
    /\ f.stage = "loaded" /\ f.route = "POST /api/projects/:id/like"
    /\ IF ~ok \/ refused
       THEN /\ flight' = [flight EXCEPT ![s] =
                   Respond([f EXCEPT !.faults = IF ok THEN @ ELSE @ \cup {"save"}],
                           500, FALSE, CatchMessage(f.route))]
            /\ UNCHANGED <<projects, now>>
       ELSE /\ now < MaxClock
            /\ now' = now + 1
            /\ projects' = [projects EXCEPT
                  ![f.oid].likes = IF existingLikeIndex > 0
                                   THEN splice(f.likes, existingLikeIndex)
                                   ELSE Append(@, entry),
                  ![f.oid].updatedAt = now + 1]
            /\ flight' = [q \in Slots |->
                  IF q = s THEN Respond(f, 200, TRUE,
                                        IF existingLikeIndex > 0 THEN "Project unliked"
                                        ELSE "Project liked")
                  ELSE IF q \in Holders(s, f.oid) THEN [flight[q] EXCEPT !.stale = TRUE]
                  ELSE flight[q]]
    /\ UNCHANGED <<users, education, contacts, last, prior, hist, walk, client>>

InitLikes ==
    /\ users = InitUsers
    /\ education = [e \in EduIds |-> NoEdu]
    /\ \E liked \in BOOLEAN :
          projects = [p \in ProjIds |->
              IF p = 1
              THEN [SeedProj(TRUE, FALSE, 1) EXCEPT
                      !.likes = IF liked THEN << [userId |-> 2, timestamp |-> 1] >>
                                ELSE << >>]
              ELSE NoProj]
    /\ contacts = [i \in ContactIds |-> NoContact]
    /\ now = 0
    /\ last = NoLast
    /\ prior = NoPrior
    /\ revoked = {}
    /\ likeCalls = [p \in ProjIds |-> [u \in UserIds |-> 0]]
    /\ walk = NoWalk
    /\ flight = NoFlights
    /\ client = NoClient

LikeCreds == {<<NoToken, NoHeader>>} \cup
             {<<NoToken, Bearer([kind |-> "valid", id |-> u])>> : u \in UserIds}

NextLikes ==
    \E s \in Slots, ok \in BOOLEAN :
        \/ \E cred \in LikeCreds, oid \in ProjIds :
              Authenticate(s, "POST /api/projects/:id/like", oid, cred[1], cred[2], ok)
        \/ FindLiked(s, ok)
        \/ SaveLike(s, ok)

SpecLikes == InitLikes /\ [][NextLikes]_vars

(***************************************************************************)
(* SpecGuard: concurrent requests of admins to PUT /api/user/:id/role and  *)
(* DELETE /api/education/:id.  The store is called once by protect and     *)
(* once by the handler.                                                    *)
(***************************************************************************)
\* the handler of PUT /api/user/:id/role, from the self-demotion guard on
UpdateRole(s, role, ok) ==
    LET f == flight[s] IN
    /\ f.stage = "authed" /\ f.route = "PUT /api/user/:id/role"
    /\ IF f.oid = f.user.id /\ role = "user"
       THEN /\ ok
            /\ flight' = [flight EXCEPT ![s] =
                   Respond([f EXCEPT !.role = role], 400, FALSE,
                           "You cannot demote yourself from admin role")]
            /\ UNCHANGED <<users, now>>
       ELSE IF ~ok
       THEN /\ flight' = [flight EXCEPT ![s] =
                   Respond([f EXCEPT !.role = role, !.faults = @ \cup {"update"}],
                           500, FALSE, CatchMessage(f.route))]
            /\ UNCHANGED <<users, now>>
       ELSE IF ~users[f.oid].exists
       THEN /\ flight' = [flight EXCEPT ![s] =
                   Respond([f EXCEPT !.role = role], 404, FALSE, "User not found")]
            /\ UNCHANGED <<users, now>>
       ELSE /\ now < MaxClock
            /\ now' = now + 1
            /\ users' = [users EXCEPT ![f.oid].role = role]
            /\ flight' = [flight EXCEPT ![s] =
                   Respond([f EXCEPT !.role = role], 200, TRUE, "")]
    /\ UNCHANGED <<education, projects, contacts, last, prior, hist, walk, client>>

\* the handler of DELETE /api/education/:id
RemoveEducation(s, ok) ==
    LET f == flight[s] IN
    /\ f.stage = "authed" /\ f.route = "DELETE /api/education/:id"
    /\ IF ~ok
       THEN /\ flight' = [flight EXCEPT ![s] =
                   Respond([f EXCEPT !.faults = @ \cup {"delete"}], 500, FALSE,
                           CatchMessage(f.route))]
            /\ UNCHANGED <<education, now>>
       ELSE IF f.oid \notin Live(education)
       THEN /\ flight' = [flight EXCEPT ![s] =
                   Respond(f, 404, FALSE, "Education record not found")]
            /\ UNCHANGED <<education, now>>
       ELSE /\ now < MaxClock
            /\ now' = now + 1
            /\ education' = [education EXCEPT ![f.oid] = DeletedEdu]
            /\ flight' = [flight EXCEPT ![s] =
                   Respond(f, 200, TRUE, "Education record deleted successfully")]
    /\ UNCHANGED <<users, projects, contacts, last, prior, hist, walk, client>>

InitGuard ==
    /\ \E role \in {"user", "admin"} : users = [InitUsers EXCEPT ![2].role = role]
    /\ education = [e \in EduIds |-> IF e = 1 THEN SeedEdu(TRUE, 1) ELSE NoEdu]
    /\ projects = [p \in ProjIds |-> NoProj]
    /\ contacts = [i \in ContactIds |-> NoContact]
    /\ now = 0
    /\ last = NoLast
    /\ prior = NoPrior
    /\ revoked = {}
    /\ likeCalls = [p \in ProjIds |-> [u \in UserIds |-> 0]]
    /\ walk = NoWalk
    /\ flight = NoFlights
    /\ client = NoClient

NextGuard ==
    \E s \in Slots, ok \in BOOLEAN :
        \/ \E cred \in LikeCreds :
              \/ \E oid \in UserIds :
                    Authenticate(s, "PUT /api/user/:id/role", oid, cred[1], cred[2], ok)
              \/ \E oid \in EduIds :
                    Authenticate(s, "DELETE /api/education/:id", oid, cred[1], cred[2], ok)
        \/ \E role \in {"user", "admin"} : UpdateRole(s, role, ok)
        \/ RemoveEducation(s, ok)

SpecGuard == InitGuard /\ [][NextGuard]_vars

(***************************************************************************)
(* SpecAuth: the operations of the client's authentication context.  Each  *)
(* operation runs to its await in one step and from the settlement of its  *)
(* api call to its end in another; operations overlap.  The server's       *)
(* answer is any of resolved and the rejections.                           *)
(***************************************************************************)
Dispatch(c, actions) ==
    [c EXCEPT !.state = dispatchAll(c.ctx, c.state, actions),
              !.cleared = "CLEAR_ERROR" \in Types(actions)]

\* checkAuthStatus (A) and initializeAuth (B) up to the await of getProfile
checkAuthStatus(ctx, storage) ==
    LET token == storage.auth_token
        calls == IF ctx = "A" THEN token # 0 ELSE token # 0 /\ storage.user # 0 IN
    [calls |-> calls,
     acts |-> IF ctx = "A" THEN <<Act("SET_LOADING", calls)>>
              ELSE IF calls THEN << >> ELSE <<Act("LOGOUT", 0)>>]

Mount ==
    LET c == client
        r == checkAuthStatus(c.ctx, c.storage) IN
    /\ c.ctx # "" /\ ~c.mounted
    /\ client' = [Dispatch(c, r.acts) EXCEPT !.mounted = TRUE,
                                             !.calls["mount"] = r.calls,
                                             !.held = c.storage.auth_token]
    /\ UNCHANGED <<store, now, last, prior, hist, walk, flight>>

\* what an operation dispatches before its await
before(ctx, op) ==
    IF ctx = "A"
    THEN (IF op \in {"login", "register"}
          THEN <<Act("SET_LOADING", TRUE), Act("CLEAR_ERROR", 0)>>
          ELSE IF op = "updateProfile" THEN <<Act("CLEAR_ERROR", 0)>>
          ELSE << >>)
    ELSE (IF op \in {"login", "register"} THEN <<Act("LOGIN_START", 0)>>
          ELSE << >>)

Start(op) ==
    LET c == client IN
    /\ c.mounted /\ ~c.calls[op]
    /\ Cardinality({o \in Ops : c.calls[o]}) < MaxCalls
    /\ client' = [Dispatch(c, before(c.ctx, op)) EXCEPT !.calls[op] = TRUE]
    /\ UNCHANGED <<store, now, last, prior, hist, walk, flight>>

\* the rest of checkAuthStatus / initializeAuth
profileLoaded(ctx, storage, r, token) ==
    IF r.status = 200
    THEN [storage |-> storage, message |-> "",
          acts |-> <<Act("LOGIN_SUCCESS", [user |-> token, token |-> token])>>]
    ELSE [storage |-> NoStorage, message |-> "", acts |-> <<Act("LOGOUT", 0)>>]

\* login after the await of authAPI.signin
login(ctx, storage, r, u) ==
    IF r.status = 200
    THEN [storage |-> [auth_token |-> u, user |-> u], message |-> "",
          acts |-> <<Act("LOGIN_SUCCESS", [user |-> u, token |-> u])>>]
    ELSE [storage |-> storage, message |-> errorMessage(r, "Login failed"),
          acts |-> <<Act(IF ctx = "A" THEN "SET_ERROR" ELSE "LOGIN_FAILURE",
                         errorMessage(r, "Login failed"))>>]

\* register (A, with its finally) and signup (B) after the await of
\* authAPI.signup
register(ctx, storage, r, u) ==
    LET finally == IF ctx = "A" THEN <<Act("SET_LOADING", FALSE)>> ELSE << >> IN
    IF r.status = 200
    THEN [storage |-> [auth_token |-> u, user |-> u], message |-> "",
          acts |-> <<Act("LOGIN_SUCCESS", [user |-> u, token |-> u])>> \o finally]
    ELSE [storage |-> storage,
          message |-> errorMessage(r, "Registration failed"),
          acts |-> <<Act(IF ctx = "A" THEN "SET_ERROR" ELSE "LOGIN_FAILURE",
                         errorMessage(r, "Registration failed"))>> \o finally]

\* (variant: the storage and the state are cleared when signout resolved)
logout_onSuccess(ctx, storage, r, u) ==
    IF r.status = 200
    THEN [storage |-> NoStorage, message |-> "", acts |-> <<Act("LOGOUT", 0)>>]
    ELSE [storage |-> storage, message |-> "", acts |-> << >>]

\* logout after the await of authAPI.signout: the catch logs, the finally
\* clears
logout(ctx, storage, r, u) ==
    [storage |-> NoStorage, message |-> "", acts |-> <<Act("LOGOUT", 0)>>]

\* updateProfile after the await of authAPI.updateProfile
updateProfile(ctx, storage, r, u) ==
    IF r.status = 200
    THEN [storage |-> [storage EXCEPT !.user = u], message |-> "",
          acts |-> <<Act(IF ctx = "A" THEN "UPDATE_USER" ELSE "SET_USER", u)>>]
    ELSE [storage |-> storage,
          message |-> errorMessage(r, "Profile update failed"),
          acts |-> IF ctx = "A"
                   THEN <<Act("SET_ERROR", errorMessage(r, "Profile update failed"))>>
                   ELSE << >>]

\* the api call of an operation settles with r (for a user u when it
\* resolves): the response interceptor, then the rest of the operation
Settle(op, r, u) ==
    LET c == client
        storage == intercepted(c.storage, r)
        out == CASE op = "mount" -> profileLoaded(c.ctx, storage, r, c.held)
                 [] op = "login" -> login(c.ctx, storage, r, u)
                 [] op = "register" -> register(c.ctx, storage, r, u)
                 [] op = "logout" -> logout(c.ctx, storage, r, u)
                 [] op = "updateProfile" -> updateProfile(c.ctx, storage, r, u) IN
    /\ c.calls[op]
    /\ client' = [Dispatch([c EXCEPT !.storage = out.storage], out.acts)
                    EXCEPT !.calls[op] = FALSE,
                           !.leaving = c.leaving \/ redirects(c.path, r),
                           !.done = [op |-> op, ok |-> r.status = 200,
                                     message |-> out.message,
                                     was |-> c.state.isAuthenticated]]
    /\ UNCHANGED <<store, now, last, prior, hist, walk, flight>>

SettleLogout == \E r \in {Resolved} \cup Rejections : Settle("logout", r, 0)

\* clearError
ClearError ==
    /\ client.mounted
    /\ client' = Dispatch(client, <<Act("CLEAR_ERROR", 0)>>)
    /\ UNCHANGED <<store, now, last, prior, hist, walk, flight>>

\* the navigation to /signin that the interceptor asked for: the page is
\* loaded anew, the calls under way are dropped
Reload ==
    /\ client.leaving
    /\ client' = [NoClient EXCEPT !.ctx = client.ctx, !.path = "/signin",
                                  !.storage = client.storage,
                                  !.state = initialState(client.ctx, client.storage)]
    /\ UNCHANGED <<store, now, last, prior, hist, walk, flight>>

Paths == {"/signin", "/admin"}
Storages == {NoStorage} \cup {[auth_token |-> u, user |-> u] : u \in Accounts}
                        \cup {[auth_token |-> u, user |-> 0] : u \in Accounts}

InitAuth ==
    /\ users = InitUsers
    /\ education = [e \in EduIds |-> NoEdu]
    /\ projects = [p \in ProjIds |-> NoProj]
    /\ contacts = [i \in ContactIds |-> NoContact]
    /\ now = 0
    /\ last = NoLast
    /\ prior = NoPrior
    /\ revoked = {}
    /\ likeCalls = [p \in ProjIds |-> [u \in UserIds |-> 0]]
    /\ walk = NoWalk
    /\ flight = NoFlights
    /\ \E ctx \in {"A", "B"}, path \in Paths, storage \in Storages :
          client = [NoClient EXCEPT !.ctx = ctx, !.path = path,
                                    !.storage = storage,
                                    !.state = initialState(ctx, storage)]

NextAuth ==
    \/ Mount
    \/ \E op \in Ops \ {"mount"} : Start(op)
    \/ \E op \in Ops, u \in Accounts :
          \/ Settle(op, Resolved, u)
          \/ \E r \in Rejections : Settle(op, r, 0)
    \/ ClearError
    \/ Reload

SpecAuth == InitAuth /\ [][NextAuth]_vars

\* the api instance has a timeout of 10 s: a call of signout that is under
\* way resolves or is rejected
SpecAuthLive == SpecAuth /\ WF_vars(SettleLogout)

(***************************************************************************)
(* Properties                                                              *)
(***************************************************************************)
OptionalRoutes == {"GET /api/education", "GET /api/education/:id",
                   "GET /api/projects", "GET /api/projects/featured",
                   "GET /api/projects/:id"}
AdminRoutes == {"PUT /api/user/:id/role", "PUT /api/user/:id/status",
                "DELETE /api/user/:id", "GET /api/user/:id",
                "GET /api/user/stats/dashboard", "GET /api/user/all",
                "POST /api/education", "PUT /api/education/:id",
                "DELETE /api/education/:id", "PUT /api/education/:id/visibility",
                "GET /api/education/admin/all",
                "POST /api/projects", "PUT /api/projects/:id",
                "DELETE /api/projects/:id", "PUT /api/projects/:id/visibility",
                "PUT /api/projects/:id/featured",
                "GET /api/contact", "GET /api/contact/:id", "PUT /api/contact/:id",
                "DELETE /api/contact/:id", "GET /api/contact/stats/dashboard"}
ProtectedRoutes == AdminRoutes \cup {"POST /api/projects/:id/like"}

\* the token a request presents, and whether it verifies
TokenOf(l) == extractToken(l.cookie, l.header)
NoValidToken(l) == TokenOf(l).kind # "valid"

\* the stored user a request's token names: active, inactive or missing
Names(l, U, u) == TokenOf(l).kind = "valid" /\ TokenOf(l).id = u
ActiveCaller(l, U, u) == Names(l, U, u) /\ U[u].exists /\ U[u].isActive

\* C1: a request to a route guarded by protect that carries no token, or a
\* token that fails verification, is answered 401, its route handler is not
\* invoked and the store is the same after the request as before it.
C1_Unauthenticated401 ==
    [][(last' # NoLast /\ last'.route \in ProtectedRoutes /\ NoValidToken(last'))
          => (last'.status = 401 /\ ~last'.success /\ ~last'.ran /\ store' = store)]_vars

C1_Witness ==
    /\ last.route = "POST /api/education"
    /\ TokenOf(last).kind = "expired"
    /\ last.status = 401

\* C7: on an admin-only route a request of an active principal whose role
\* is not admin is answered 403 and changes nothing in the store; a request
\* that protect does not authenticate is answered 401, never 403.
C7_AdminGate ==
    [][(last' # NoLast /\ last'.route \in AdminRoutes)
          => /\ \A u \in UserIds :
                  (ActiveCaller(last', users, u) /\ users[u].role # "admin")
                     => (last'.status = 403 /\ ~last'.ran /\ store' = store)
             /\ (\A u \in UserIds : ~ActiveCaller(last', users, u))
                     => last'.status = 401]_vars

C7_Witness ==
    /\ last.route = "DELETE /api/education/:id"
    /\ last.user.id # 0 /\ last.user.role = "user"
    /\ last.status = 403

AdminCaller(l, U) ==
    \E u \in UserIds : ActiveCaller(l, U, u) /\ U[u].role = "admin"

\* C2: to a caller who is not an admin the five public reads never return
\* a record whose isVisible is false; to an admin they return hidden
\* records like visible ones (a hidden record is found by id, and a listing
\* counts every record that matches the other query parameters).
C2_VisibilityFilter ==
    (last # NoLast /\ last.route \in OptionalRoutes) =>
        IF ~AdminCaller(last, users)
        THEN \A k \in 1..Len(last.docs) : last.docs[k].isVisible
        ELSE /\ (/\ last.route = "GET /api/education/:id"
                 /\ castable(last.param)
                 /\ last.param.oid \in Live(education))
                    => (last.status = 200 /\ Ids(last.docs) = <<last.param.oid>>)
             /\ (/\ last.route = "GET /api/projects/:id"
                 /\ castable(last.param)
                 /\ last.param.oid \in Live(projects))
                    => (last.status = 200 /\ Ids(last.docs) = <<last.param.oid>>)
             /\ last.route = "GET /api/education"
                    => Len(last.docs) =
                         Min(last.body.limit,
                             Cardinality({i \in Live(education) :
                                 last.body.type # "" =>
                                     education[i].type = last.body.type}))
             /\ last.route = "GET /api/projects"
                    => last.total =
                         Cardinality({i \in Live(projects) :
                             last.body.featured # "" =>
                                 projects[i].isFeatured = (last.body.featured = "true")})
             /\ last.route = "GET /api/projects/featured"
                    => Len(last.docs) =
                         Min(last.body.limit,
                             Cardinality({i \in Live(projects) :
                                             projects[i].isFeatured}))

C2_Witness ==
    /\ last.route = "GET /api/education"
    /\ ~AdminCaller(last, users)
    /\ \E i \in Live(education) : ~education[i].isVisible
    /\ last.status = 200

\* C3 (as stated): when an admin asks to set their own role to user, to set
\* their own isActive to false or to delete their own account, with a body
\* that passes the validators and an :id that the store resolves to their
\* record, the response is 400 with success = false and their stored record
\* is unchanged.
C3_SelfProtection ==
    [][\A a \in UserIds :
          (/\ last' # NoLast
           /\ ActiveCaller(last', users, a) /\ users[a].role = "admin"
           /\ castable(last'.param) /\ last'.param.oid = a
           /\ \/ /\ last'.route = "PUT /api/user/:id/role"
                 /\ last'.body.role = "user"
              \/ /\ last'.route = "PUT /api/user/:id/status"
                 /\ isBoolean(last'.body.isActive)
                 /\ ~castBoolean(last'.body.isActive)
              \/ last'.route = "DELETE /api/user/:id")
          => (last'.status = 400 /\ ~last'.success /\ users'[a] = users[a])]_vars

LikeRoute == "POST /api/projects/:id/like"
Likers(likes) == {likes[k].userId : k \in 1..Len(likes)}
LikesOf(likes, u) == Cardinality({k \in 1..Len(likes) : likes[k].userId = u})

\* C4: the like route is a toggle for each principal: after N successful
\* like requests of a principal on a project the likes of the project hold
\* N mod 2 entries of that principal, the likeCount of the response is the
\* number of likes of other principals plus N mod 2, and after two
\* consecutive like requests of a principal the principals who like the
\* project are those who liked it before (the likes array itself is the
\* same when the principal did not like the project before).
C4_LikeToggle ==
    /\ \A p \in Live(projects), u \in UserIds :
          LikesOf(projects[p].likes, u) = likeCalls[p][u]
    /\ (last.route = LikeRoute /\ last.status = 200) =>
          LET p == last.param.oid
              u == last.user.id
              likes == projects[p].likes IN
          /\ last.likeCount =
                Cardinality({k \in 1..Len(likes) : likes[k].userId # u})
                   + likeCalls[p][u]
          /\ last.liked = (likeCalls[p][u] = 1)
          /\ (prior.route = LikeRoute /\ prior.oid = p /\ prior.by = u) =>
                /\ Likers(likes) = Likers(prior.pre.likes)
                /\ Len(likes) = Len(prior.pre.likes)
                /\ findIndex(prior.pre.likes, u) = 0 => likes = prior.pre.likes

C4_Witness ==
    /\ last.route = LikeRoute /\ last.status = 200
    /\ prior.route = LikeRoute
    /\ prior.oid = last.param.oid /\ prior.by = last.user.id
    /\ ~last.liked
    /\ last.user.role = "user"

FlagOf(route) == IF route = "PUT /api/projects/:id/featured" THEN "isFeatured"
                 ELSE "isVisible"
\* the record a request to a flag route addressed, as stored now
Addressed(l) == IF l.route = "PUT /api/education/:id/visibility"
                THEN education[l.param.oid] ELSE projects[l.param.oid]
Toggled == last.route \in FlagRoutes /\ last.status = 200
ToggledTwice == Toggled /\ prior.route = last.route /\ prior.oid = last.param.oid
Except(doc, field) == [f \in DOMAIN doc \ {field} |-> doc[f]]

\* C5 (as stated): after two toggles of a flag of a record with no other
\* write in between, the flag has its original value and every other field
\* of the record is what it was.
C5_DoubleToggleRestoresRecord ==
    ToggledTwice => Addressed(last) = prior.pre

\* C5 (amended): a toggle inverts the flag; after two toggles of a flag of
\* a record with no other write in between, the flag has its original value
\* and every other field except updatedAt is what it was; updatedAt is the
\* time of the second toggle.
C5_DoubleToggleRestoresFields ==
    /\ Toggled =>
          /\ Addressed(last)[FlagOf(last.route)] = ~last.pre[FlagOf(last.route)]
          /\ Except(Addressed(last), FlagOf(last.route)) =
                [Except(last.pre, FlagOf(last.route)) EXCEPT !.updatedAt = now]
    /\ ToggledTwice =>
          /\ Except(Addressed(last), "updatedAt") = Except(prior.pre, "updatedAt")
          /\ Addressed(last).updatedAt = now
          /\ Addressed(last).updatedAt > prior.pre.updatedAt

C5_Witness ==
    /\ ToggledTwice
    /\ last.route = "PUT /api/projects/:id/featured"
    /\ ~Addressed(last).isFeatured

PutRoutes == {"PUT /api/education/:id", "PUT /api/projects/:id"}
\* the non-admin principal u asks to update a record that u created, with a
\* body that passes the validators
OwnerUpdate(l, u) ==
    /\ l.route \in PutRoutes
    /\ ActiveCaller(l, users, u) /\ users[u].role # "admin"
    /\ castable(l.param)
    /\ IF l.route = "PUT /api/education/:id"
       THEN /\ l.param.oid \in Live(education)
            /\ education[l.param.oid].createdBy = u
            /\ EduBodyValid(l.body, FALSE)
       ELSE /\ l.param.oid \in Live(projects)
            /\ projects[l.param.oid].createdBy = u
            /\ ProjBodyValid(l.body, FALSE)

Verified(l, u) == l.route \in ProtectedRoutes /\ Names(l, users, u)

\* C9 (as stated): once a user has been deactivated or deleted, every later
\* request to a protected route with that user's valid token is rejected
\* with 401.
C9_RevokedForever ==
    [][\A u \in revoked :
          (last' # NoLast /\ Verified(last', u)) => last'.status = 401]_vars

\* C9 (amended): a request to a protected route whose token verifies but
\* names a user that does not exist or has isActive = false is rejected
\* with 401, no principal is attached, the handler is not run and the store
\* is unchanged; so the token of a deactivated or deleted user is rejected
\* for as long as the user stays deactivated or deleted.
C9_FailClosed ==
    [][\A u \in UserIds :
          (/\ last' # NoLast /\ Verified(last', u)
           /\ (~users[u].exists \/ ~users[u].isActive))
          => /\ last'.status = 401 /\ ~last'.success
             /\ last'.user = NoUser /\ last'.nexts = 0 /\ ~last'.ran
             /\ store' = store]_vars

C9_Witness ==
    /\ last.route = LikeRoute
    /\ TokenOf(last).kind = "valid"
    /\ TokenOf(last).id \in revoked
    /\ users[TokenOf(last).id].exists /\ ~users[TokenOf(last).id].isActive
    /\ last.status = 401

\* C10: optionalAuth never rejects: whatever the token and the user it
\* names, next() is called once, the handler runs and the response is
\* neither 401 nor 403; a principal is attached exactly when the token
\* verifies and names an existing, active user, and it is that user.
C10_OptionalAuthNeverRejects ==
    (last # NoLast /\ last.route \in OptionalRoutes) =>
        /\ last.nexts = 1 /\ last.ran /\ last.status \notin {401, 403}
        /\ (last.user # NoUser) <=> (\E u \in UserIds : ActiveCaller(last, users, u))
        /\ \A u \in UserIds :
              ActiveCaller(last, users, u)
                 => last.user = [id |-> u, role |-> users[u].role]

C10_Witness ==
    /\ last.route = "GET /api/projects"
    /\ TokenOf(last).kind = "valid"
    /\ users[TokenOf(last).id].exists /\ ~users[TokenOf(last).id].isActive
    /\ last.user = NoUser
    /\ last.status = 200

\* C6 (as stated): a paginated listing reports pages = ceil(total / limit),
\* and the pages 1..pages of a listing, fetched one after the other with
\* the same query and sort and no write in between, hold total ids, each
\* once.
C6_PagesPartition ==
    (last # NoLast /\ last.route \in PagedRoutes /\ last.status = 200) =>
        /\ last.pages = Ceil(last.total, last.body.limit)
        /\ (walk.route = last.route /\ walk.page = last.pages) =>
              /\ Len(walk.ids) = last.total
              /\ \A i, j \in 1..Len(walk.ids) : i # j => walk.ids[i] # walk.ids[j]

\* the response of protect to a token that is past its exp
ExpiredMessage ==
    protect(NoToken, Bearer([kind |-> "expired", id |-> 1]), users).message

\* C11 (as stated): on a protected route a request with no token, or with
\* a malformed, wrongly signed or expired token, is answered 401 with one
\* and the same message.
C11_OneMessage ==
    (last # NoLast /\ last.route \in ProtectedRoutes /\ NoValidToken(last)) =>
        (last.status = 401 /\ last.message = ExpiredMessage)

\* C11 (amended): on a protected route a malformed, a wrongly signed and an
\* expired token are answered 401 with one and the same message, so these
\* three reasons cannot be told apart; a request with no token is answered
\* 401 with a message of its own.
C11_InvalidTokenOneMessage ==
    (last # NoLast /\ last.route \in ProtectedRoutes /\ NoValidToken(last)) =>
        /\ last.status = 401 /\ ~last.success
        /\ last.message = IF TokenOf(last).kind = "none"
                          THEN "Access denied. No token provided."
                          ELSE "Token is invalid or expired."
        /\ TokenOf(last).kind # "none" => last.message = ExpiredMessage

C11_Witness ==
    /\ last.route \in ProtectedRoutes
    /\ TokenOf(last).kind = "badsig"
    /\ last.status = 401 /\ last.message = ExpiredMessage

\* C12: when a request carries a token cookie, protect and optionalAuth use
\* the cookie alone: the status, the message and the attached principal are
\* those of the request without its Authorization header.
C12_CookieFirst ==
    (last # NoLast /\ last.cookie.kind # "none") =>
        /\ last.route \in OptionalRoutes =>
              last.user = optionalAuth(last.cookie, NoHeader, users).user
        /\ last.route = "GET /api/education/admin/all" =>
              LET g == protectAdmin(last.cookie, NoHeader, users) IN
              /\ last.user = g.user
              /\ (g.next = 0) = (last.status \in {401, 403})
              /\ g.next = 0 => (last.status = g.status /\ last.message = g.message)

C12_Witness ==
    /\ last.route = "GET /api/education/admin/all"
    /\ last.cookie.kind = "expired"
    /\ last.header = Bearer([kind |-> "valid", id |-> 1])
    /\ last.status = 401

\* the id of a request identifies a record of collection C
Identifies(l, C) == castable(l.param) /\ l.param.oid \in Live(C)

\* C13 (as stated): GET /api/education/:id and GET /api/projects/:id
\* answer 404 with success = false for every id that identifies no stored
\* record and, to a caller who is not an admin, for the id of a hidden
\* record; an admin receives a hidden record with 200.
C13_NotFound404 ==
    (last # NoLast /\ last.route \in {"GET /api/education/:id", "GET /api/projects/:id"}) =>
        LET C == IF last.route = "GET /api/education/:id" THEN education
                 ELSE projects IN
        IF ~Identifies(last, C) THEN last.status = 404 /\ ~last.success
        ELSE IF C[last.param.oid].isVisible THEN last.status = 200
        ELSE IF AdminCaller(last, users) THEN last.status = 200
        ELSE last.status = 404 /\ ~last.success

\* the fields that the validators of a route reject in the body of a request
BodyErrors(l) ==
    CASE l.route = "POST /api/contact" -> ContactErrors(l.body)
      [] l.route = "PUT /api/contact/:id" ->
            {f \in {"status"} :
                l.body.status \notin {"", "new", "read", "replied", "archived"}}
      [] l.route = "POST /api/education" -> EduErrors(l.body, TRUE)
      [] l.route = "PUT /api/education/:id" -> EduErrors(l.body, FALSE)
      [] l.route = "POST /api/projects" -> ProjErrors(l.body, TRUE)
      [] l.route = "PUT /api/projects/:id" -> ProjErrors(l.body, FALSE)
      [] l.route = "PUT /api/user/:id/role" ->
            {f \in {"role"} : l.body.role \notin {"user", "admin"}}
      [] l.route = "PUT /api/user/:id/status" ->
            {f \in {"isActive"} : ~isBoolean(l.body.isActive)}
      [] OTHER -> {}

\* the store reads of the authentication middleware of a request: protect
\* looks the user of a verified token up before the validators run
AuthReads(l) ==
    IF l.route = "POST /api/contact" THEN 0
    ELSE IF verifyToken(TokenOf(l)).ok THEN 1 ELSE 0

\* the answer to a body that fails validation
Answered400(l) ==
    /\ l.status = 400 /\ ~l.success
    /\ l.message = "Validation failed"
    /\ l.errors = BodyErrors(l)
    /\ ~l.wrote

\* C14 (as stated): on every route with field validators a body that fails
\* validation is answered 400 with a non-empty errors list, no store read
\* and no store write is made for the request, and the store is unchanged.
C14_NoStoreAccess ==
    (last # NoLast /\ last.ran /\ BodyErrors(last) # {}) =>
        (Answered400(last) /\ AuthReads(last) = 0)

\* C14 (amended): on every route with field validators a request that has
\* passed the authentication middleware of the route and whose body fails
\* validation is answered 400 with the non-empty list of the failing fields,
\* whatever its id parameter is (no record is looked up: neither 404 nor
\* 500), and the store is unchanged.
C14_ValidationFirst ==
    (last # NoLast /\ last.ran /\ BodyErrors(last) # {}) => Answered400(last)

C14_Witness ==
    /\ last.route = "PUT /api/contact/:id"
    /\ BodyErrors(last) # {}
    /\ ~Identifies(last, contacts)
    /\ last.status = 400 /\ last.errors = {"status"}

\* C15 (as stated): the contact submission {Jo, bad email, Hi, short} is
\* answered 400 with an errors entry for name, for email and for message,
\* and no Contact record is stored.
C15_NameEmailMessage ==
    (last.route = "POST /api/contact" /\ last.body = JoBody) =>
        /\ last.status = 400
        /\ {"name", "email", "message"} \subseteq last.errors
        /\ ~last.wrote

\* C15 (amended): the contact submission {Jo, bad email, Hi, short} is
\* answered 400, its errors list has an entry for email (format), for
\* subject (minimum length 5) and for message (minimum length 10) and none
\* for name (two characters meet the minimum of 2), and no Contact record
\* is stored.
C15_EmailSubjectMessage ==
    (last.route = "POST /api/contact" /\ last.body = JoBody) =>
        /\ last.status = 400 /\ ~last.success
        /\ last.errors = {"email", "subject", "message"}
        /\ ~last.wrote

C15_Witness ==
    /\ last.route = "POST /api/contact" /\ last.body = JoBody
    /\ last.status = 400 /\ "name" \notin last.errors

\* the education records a caller who is not an admin is to be listed
Matching(type) ==
    {i \in Live(education) : education[i].isVisible /\ education[i].type = type}

\* record a comes before record b by startDate descending, then sortOrder
\* ascending
Before(a, b) ==
    \/ a.startDate > b.startDate
    \/ (a.startDate = b.startDate /\ a.sortOrder < b.sortOrder)

\* C16: for an unauthenticated caller GET /api/education with type = T,
\* sortBy = startDate and sortOrder = desc returns exactly the visible
\* records of type T, truncated to limit, ordered by startDate descending
\* and, among equal start dates, by sortOrder ascending.
C16_TypedListing ==
    (/\ last.route = "GET /api/education"
     /\ last.cookie.kind = "none" /\ last.header = NoHeader
     /\ last.body.type \in EduTypes
     /\ last.body.sortBy = "startDate" /\ last.body.sortOrder = "desc") =>
        LET ids == Ids(last.docs)
            M == Matching(last.body.type)
            sent == {ids[k] : k \in 1..Len(ids)} IN
        /\ last.status = 200 /\ last.success
        /\ sent \subseteq M
        /\ Len(ids) = Min(last.body.limit, Cardinality(M))
        /\ Cardinality(sent) = Len(ids)
        /\ \A j, k \in 1..Len(ids) :
              j < k => ~Before(education[ids[k]], education[ids[j]])
        /\ \A i \in M \ sent, k \in 1..Len(ids) :
              ~Before(education[i], education[ids[k]])

C16_Witness ==
    /\ last.route = "GET /api/education"
    /\ last.cookie.kind = "none" /\ last.header = NoHeader
    /\ last.body.type = "formal"
    /\ last.body.sortBy = "startDate" /\ last.body.sortOrder = "desc"
    /\ last.body.limit = DefaultLimit
    /\ Len(last.docs) = 2
    /\ education[last.docs[1].id].startDate = education[last.docs[2].id].startDate
    /\ education[last.docs[1].id].sortOrder < education[last.docs[2].id].sortOrder
    /\ last.docs[1].id > last.docs[2].id

\* the body of a response has success: v
HasSuccess(l, v) == "success" \in l.keys /\ l.success = v

\* C17 (as stated): every response with an error status has success =
\* false, every 2xx response has success = true, and no response has both
\* success = true and an errors list.
C17_Envelope ==
    last # NoLast =>
        /\ last.status >= 400 => HasSuccess(last, FALSE)
        /\ last.status \in 200..299 => HasSuccess(last, TRUE)
        /\ ~(HasSuccess(last, TRUE) /\ last.errors # {})

\* C17 (amended): every response with an error status, whether of a route
\* handler, the authentication middleware, the unmatched-route handler or
\* the error middleware, has success = false; every 2xx response of a
\* router has success = true; no response has both success = true and an
\* errors list; the 200 response of GET /api/health has no success field.
C17_EnvelopeButHealth ==
    last # NoLast =>
        /\ last.status >= 400 => HasSuccess(last, FALSE)
        /\ (last.status \in 200..299 /\ last.route # "GET /api/health") =>
              HasSuccess(last, TRUE)
        /\ ~(HasSuccess(last, TRUE) /\ last.errors # {})
        /\ last.route = "GET /api/health" =>
              (last.status = 200 /\ "success" \notin last.keys)
        /\ last.status \in 200..299 \/ last.status >= 400

C17_Witness ==
    /\ last.route = "POST /api/contact" /\ ~last.body.parsable
    /\ last.status = 413 /\ HasSuccess(last, FALSE) /\ ~last.ran

\* request s completes a toggle in this step
Saves(s) ==
    /\ flight[s].stage = "loaded"
    /\ flight'[s].stage = "done" /\ flight'[s].status = 200

SendsProject(s) ==
    /\ flight[s].stage = "authed" /\ flight[s].route = "GET /api/projects/:id"
    /\ flight'[s].stage = "done" /\ flight'[s].status = 200

\* C19: the 200 of GET /api/projects/:id is sent while the increment of
\* views is still on its way: the step that sends it leaves the store as
\* it is and the response carries the views that were read; a request that
\* reads the project while increments of earlier responses are not applied
\* reads a count without them.
C19_FireAndForget ==
    /\ [][\A s \in Slots : SendsProject(s) =>
             /\ projects' = projects
             /\ flight'[s].views = projects[flight[s].oid].views
             /\ flight'[s].inc = "pending"]_vars
    /\ [](\A s \in Slots :
             (flight[s].route = "GET /api/projects/:id" /\ flight[s].status = 200) =>
                 flight[s].views = Cardinality(flight[s].seen \ flight[s].behind))

\* the second request read the project after the response of the first and
\* before the increment of the first was applied, and read the old count
C19_Witness ==
    \E s, q \in Slots :
        /\ s # q
        /\ flight[s].status = 200 /\ flight[s].inc = "pending"
        /\ flight[q].status = 200 /\ s \in flight[q].behind
        /\ flight[q].views = flight[s].views

\* C20 (as stated): every failure of a store call made while serving a
\* request, the increment of views included, is caught by the handler of
\* the request and answered with one 500 with success = false; the failed
\* call is not made again.
C20_FailuresGive500 ==
    \A s \in Slots :
        (flight[s].faults # {} /\ flight[s].stage = "done") =>
            /\ flight[s].status = 500 /\ ~flight[s].success
            /\ flight[s].responses = 1

\* C21: the admin gate decides by the role stored for the principal when
\* the request is served, not by the role the principal had when the token
\* was issued: a token of an active user whose stored role is not admin is
\* answered 403 on every admin-only route, and a token of an active user
\* whose stored role is admin passes the gate.
C21_StoredRoleDecides ==
    [][(last' # NoLast /\ last'.route \in AdminRoutes)
          => \A u \in UserIds :
                ActiveCaller(last', users, u) =>
                    IF users[u].role = "admin"
                    THEN /\ last'.ran /\ last'.status \notin {401, 403}
                         /\ last'.user = [id |-> u, role |-> "admin"]
                    ELSE last'.status = 403 /\ ~last'.ran]_vars

\* the seeded admin, demoted since, presents its token and is answered 403
C21_Witness ==
    /\ last.route \in AdminRoutes
    /\ Names(last, users, 1)
    /\ InitUsers[1].role = "admin"
    /\ users[1].exists /\ users[1].isActive /\ users[1].role = "user"
    /\ last.status = 403

\* the record that the create or update request served last has stored
Stored(l) ==
    IF l.route \in {"POST /api/education", "PUT /api/education/:id"}
    THEN education[l.docs[1].id] ELSE projects[l.docs[1].id]
Applied(l, routes) == l.route \in routes /\ l.status \in {200, 201}

\* C22: after a create or update of an Education record whose body has a
\* truthy isCurrentlyStudying the stored endDate is null, whatever endDate
\* the body has; after a create or update of a Project whose body has a
\* truthy isOngoing the stored endDate is null and the stored status is
\* in-progress, whatever the body has; an update that carries an endDate
\* and no flag stores the endDate and leaves the flag as it was.
C22_FlagClearsEndDate ==
    /\ (/\ Applied(last, {"POST /api/education", "PUT /api/education/:id"})
        /\ ~falsy(last.body.isCurrentlyStudying))
          => Stored(last).endDate = 0
    /\ (/\ Applied(last, {"POST /api/projects", "PUT /api/projects/:id"})
        /\ ~falsy(last.body.isOngoing))
          => (Stored(last).endDate = 0 /\ Stored(last).status = "in-progress")
    /\ (/\ Applied(last, {"PUT /api/education/:id"})
        /\ last.body.isCurrentlyStudying = "" /\ last.body.endDate # 0)
          => /\ Stored(last).endDate = last.body.endDate
             /\ Stored(last).isCurrentlyStudying = last.pre.isCurrentlyStudying
    /\ (/\ Applied(last, {"PUT /api/projects/:id"})
        /\ last.body.isOngoing = "" /\ last.body.endDate # 0)
          => /\ Stored(last).endDate = last.body.endDate
             /\ Stored(last).isOngoing = last.pre.isOngoing

\* an update with an endDate and no flag has left a record with the flag
\* true and an endDate
C22_Witness ==
    /\ Applied(last, {"PUT /api/education/:id"})
    /\ last.body.isCurrentlyStudying = "" /\ last.body.endDate # 0
    /\ last.pre.isCurrentlyStudying /\ last.pre.endDate = 0
    /\ Stored(last).isCurrentlyStudying /\ Stored(last).endDate # 0

\* C23 (as stated): the createdBy of an Education or Project record is the
\* id of the principal whose create request produced it, whatever
\* createdBy the body of the create has, and no later request changes it.
C23_CreatedByFixed ==
    [][/\ \A e \in EduIds :
            education'[e].exists =>
               IF education[e].exists
               THEN education'[e].createdBy = education[e].createdBy
               ELSE education'[e].createdBy = last'.user.id
       /\ \A p \in ProjIds :
            projects'[p].exists =>
               IF projects[p].exists
               THEN projects'[p].createdBy = projects[p].createdBy
               ELSE projects'[p].createdBy = last'.user.id]_vars

\* C24 (as stated): in every reachable state, also with concurrent like
\* requests of one principal on one project, the likes of a project hold at
\* most one entry of any principal.
C24_OneLikePerPrincipal ==
    \A p \in ProjIds, u \in UserIds :
        Cardinality({k \in 1..Len(projects[p].likes) :
                        projects[p].likes[k].userId = u}) <= 1

\* C25 (as stated): from a store with an active admin, after any
\* interleaving of requests of authenticated admins that pass protect,
\* adminOnly and the self-action guards, the store holds a user with role
\* admin who is active.
C25_AnAdminRemains ==
    \E u \in UserIds :
        users[u].exists /\ users[u].isActive /\ users[u].role = "admin"

\* request s is answered 200 in this step and the store has changed
Writes(s) ==
    /\ flight[s].stage = "authed" /\ flight'[s].stage = "done"
    /\ flight'[s].status = 200
    /\ store' # store

\* C26 (as stated): when a write of an admin-only handler is applied, the
\* principal it is made for exists, is active and is an admin.
C26_WriterIsAdmin ==
    [][\A s \in Slots : Writes(s) =>
          LET u == flight[s].user.id IN
          users[u].exists /\ users[u].isActive /\ users[u].role = "admin"]_vars

\* C27 (as stated): a like request of a principal who is not an admin on a
\* project whose isVisible is false is answered 404, as GET
\* /api/projects/:id is for that caller, and leaves the likes of the project
\* as they were.
C27_HiddenLikeIs404 ==
    (/\ last.route = LikeRoute /\ last.ran
     /\ ~isAdmin(last.user)
     /\ castable(last.param) /\ last.param.oid \in Live(projects)
     /\ ~projects[last.param.oid].isVisible) =>
        /\ last.status = 404
        /\ ~last.wrote

\* the GET /api/projects/:id requests for project p whose increment is
\* still on its way or was lost in the store
Outstanding(p) ==
    {s \in Slots : flight[s].oid = p /\ flight[s].inc \in {"pending", "failed"}}

\* C28: without update and delete requests on a project, once the increments
\* that were issued have been applied the stored views of the project is its
\* initial value plus the number of GET /api/projects/:id requests answered
\* 200 for it, also when the requests overlap; a request answered 404
\* issues no increment and leaves the views as they are.
C28_ViewsCountResponses ==
    /\ [](\A p \in Live(projects) :
            Outstanding(p) = {} => projects[p].views = Cardinality(Sent(p)))
    /\ [](\A s \in Slots : flight[s].status # 200 => flight[s].inc = "none")
    /\ [][\A s \in Slots :
             (flight[s].stage = "authed" /\ flight'[s].status = 404) =>
                 projects' = projects]_vars

\* two overlapping views: the second request read the project before the
\* increment of the first was applied, and both increments have arrived
C28_Witness ==
    \E s, q \in Slots :
        /\ s # q
        /\ s \in Sent(1) /\ q \in Sent(1)
        /\ s \in flight[q].behind
        /\ flight[s].inc = "applied" /\ flight[q].inc = "applied"
        /\ projects[1].views = 2

\* the step ends operation op: its api call has settled and the rest of the
\* operation has run
Ends(op) ==
    /\ client.calls[op] /\ ~client'.calls[op]
    /\ client'.done.op = op

\* C29: logout ends in the logged-out state whether signout resolved or was
\* rejected: the step that ends it leaves localStorage without auth_token
\* and user and the state with user = null, token = null, isAuthenticated =
\* false, isLoading = false and error = null; and a logout that is under way
\* ends (or the page is left).
C29_LogoutClears ==
    /\ [][Ends("logout") =>
             /\ client'.storage = NoStorage
             /\ client'.state = LoggedOut]_vars
    /\ (client.calls["logout"] ~> ~client.calls["logout"])

\* signout was rejected for a client that was authenticated, and the client
\* is logged out
C29_Witness ==
    /\ client.done.op = "logout" /\ ~client.done.ok
    /\ client.done.was
    /\ client.state = LoggedOut /\ client.storage = NoStorage

\* the step ends a login or a register whose api call was rejected
FailsAuth ==
    \E op \in {"login", "register"} : Ends(op) /\ ~client'.done.ok

\* C30 (as stated): in the authentication context (version A), when a
\* login or a register fails the state has error equal to the failure
\* message, isLoading = false and isAuthenticated as before; the error stays
\* until CLEAR_ERROR is dispatched (a login or register that is called
\* dispatches it).
C30_ErrorKept ==
    [][client.ctx = "A" =>
          /\ FailsAuth =>
                /\ client'.state.error = client'.done.message
                /\ ~client'.state.isLoading
                /\ client'.state.isAuthenticated = client.state.isAuthenticated
          /\ (/\ client.done.op \in {"login", "register"} /\ ~client.done.ok
              /\ client.state.error = client.done.message
              /\ ~client'.cleared
              /\ ~(client.leaving /\ ~client'.leaving)) =>
                client'.state.error = client.state.error]_vars

====
